---------------------------- MODULE Spec2Model ----------------------------
(***************************************************************************)
(* A model of the scoring engine of the memecoin dashboard (src/utils.js,  *)
(* src/config.js) as it is driven by renderTokenData in src/app.js: a      *)
(* market-pair snapshot is analysed by analyzeSentiment, then by           *)
(* calculateRiskAnalysis, then by generateVerdict.  Further on come        *)
(* validateInput and isBlockedToken, renderMomentumScore,                  *)
(* generatePredictions and the Developer Trust check, each with a          *)
(* specification of its own.                                               *)
(*                                                                         *)
(* JavaScript values are modelled by what the code can observe of them: a  *)
(* field of the snapshot is undefined, null or a number; a number is an    *)
(* exact rational n/d, NaN, or a signed Infinity.  The snapshots drawn in  *)
(* Init hold integers; every threshold of the code is an integer, so each  *)
(* interval a real-valued field can fall in has an integer in it.          *)
(***************************************************************************)
EXTENDS Integers, Sequences, FiniteSets, TLC

VARIABLES
    tokenData,   \* the MarketPairSnapshot being displayed
    sentiment,   \* result of analyzeSentiment(pair), or None
    risks,       \* result of calculateRiskAnalysis(pair), or None
    verdict,     \* result of generateVerdict(pair, risks, sentiment), or None
    pc,          \* position of renderTokenData in its sequence of calls
    input,       \* the text handed to validateInput and isBlockedToken
    validation,  \* result of validateInput(input), or None
    blocked,     \* result of isBlockedToken(input), or None
    momentum,    \* what renderMomentumScore(pair, sentiment) put on the page, or None
    predictions, \* result of generatePredictions(pair), or None
    devFacts,    \* what the chain indexer, the pair and the page hold for a dev check
    apiData,     \* response of /api/check-dev on its way to the page, or None
    devAnalysis, \* result of DevChecker.analyzeDevWallet, or None
    cache,       \* localStorage's memeradar_dev_cache: address -> entry, or None
    now,         \* Date.now(), in milliseconds
    call,        \* the analyzeDevWallet call that is awaiting or has returned
    read,        \* what the last getCachedDevData found and returned
    walletFacts,    \* what the wallet-data API answers to the four lookups
    walletResponse, \* response of /api/wallet-analysis?type=full, or None
    walletSummary,  \* result of MoralisAPI.getWalletSummary, or None
    sources,     \* what the four endpoints of getTokenDirect answer
    contacted,   \* the endpoints getTokenDirect has sent a request to, in order
    direct,      \* result of getTokenDirect, or None
    price,       \* the price handed to formatPrice
    formatted,   \* result of formatPrice(price), or None
    isLoading,   \* FreshPairsManager.isLoading
    fetches,     \* the fetchFreshPairs calls awaiting a response, by endpoint
    pairs,       \* FreshPairsManager.pairs, by where the list came from
    refreshInterval \* whether the auto-refresh timer is running

inputVars == <<input, validation, blocked>>

devVars == <<devFacts, apiData, devAnalysis>>

cacheVars == <<cache, now, call, read>>

walletVars == <<walletFacts, walletResponse, walletSummary>>

directVars == <<sources, contacted, direct>>

priceVars == <<price, formatted>>

freshVars == <<isLoading, fetches, pairs, refreshInterval>>

afterDirectVars == <<priceVars, freshVars>>

afterWalletVars == <<directVars, afterDirectVars>>

afterCacheVars == <<walletVars, afterWalletVars>>

serviceVars == <<cacheVars, afterCacheVars>>

vars == <<tokenData, sentiment, risks, verdict, pc, inputVars, momentum, predictions, devVars,
         serviceVars>>

\* How far around each threshold of the code the snapshots of Init reach.
MaxDelta == 1

None == [none |-> TRUE]

-----------------------------------------------------------------------------
(* JavaScript values and the operators the scoring code applies to them.   *)

Undefined == [kind |-> "undefined", n |-> 0, d |-> 1]

Null == [kind |-> "null", n |-> 0, d |-> 1]

NaN == [kind |-> "NaN", n |-> 0, d |-> 1]

PosInfinity == [kind |-> "Infinity", n |-> 1, d |-> 1]

NegInfinity == [kind |-> "Infinity", n |-> -1, d |-> 1]

Num(i) == [kind |-> "number", n |-> i, d |-> 1]

\* The sign of a number or an Infinity: -1, 0 or 1.
Sign(v) == IF v.n > 0 THEN 1 ELSE IF v.n < 0 THEN -1 ELSE 0

\* ToNumber, applied by the arithmetic and relational operators.
ToNumber(v) ==
    CASE v.kind = "undefined" -> NaN
      [] v.kind = "null" -> Num(0)
      [] OTHER -> v

\* ToBoolean: undefined, null, NaN and 0 are falsy.
Truthy(v) == v.kind = "Infinity" \/ (v.kind = "number" /\ v.n # 0)

\* a || b
Or(a, b) == IF Truthy(a) THEN a ELSE b

\* a < b: false as soon as an operand is NaN.
Lt(a, b) ==
    LET x == ToNumber(a)
        y == ToNumber(b)
    IN  CASE x.kind = "NaN" \/ y.kind = "NaN" -> FALSE
          [] x.kind = "Infinity" /\ y.kind = "Infinity" -> x.n < y.n
          [] x.kind = "Infinity" -> x.n < 0
          [] y.kind = "Infinity" -> y.n > 0
          [] OTHER -> x.n * y.d < y.n * x.d

\* a > b
Gt(a, b) == Lt(b, a)

\* a <= b: false as soon as an operand is NaN.
Le(a, b) ==
    LET x == ToNumber(a)
        y == ToNumber(b)
    IN  x.kind # "NaN" /\ y.kind # "NaN" /\ ~Lt(y, x)

\* Math.abs(a)
Abs(a) ==
    LET x == ToNumber(a)
    IN  CASE x.kind = "NaN" -> NaN
          [] x.kind = "Infinity" -> PosInfinity
          [] OTHER -> [x EXCEPT !.n = IF x.n < 0 THEN -x.n ELSE x.n]

\* a + b
Add(a, b) ==
    LET x == ToNumber(a)
        y == ToNumber(b)
    IN  CASE x.kind = "NaN" \/ y.kind = "NaN" -> NaN
          [] x.kind = "Infinity" /\ y.kind = "Infinity" ->
                IF x.n = y.n THEN x ELSE NaN
          [] x.kind = "Infinity" -> x
          [] y.kind = "Infinity" -> y
          [] OTHER -> [kind |-> "number", n |-> x.n * y.d + y.n * x.d, d |-> x.d * y.d]

\* a * b
Mul(a, b) ==
    LET x == ToNumber(a)
        y == ToNumber(b)
    IN  CASE x.kind = "NaN" \/ y.kind = "NaN" -> NaN
          [] x.kind = "Infinity" \/ y.kind = "Infinity" ->
                IF Sign(x) * Sign(y) = 0 THEN NaN
                ELSE IF Sign(x) * Sign(y) > 0 THEN PosInfinity ELSE NegInfinity
          [] OTHER -> [kind |-> "number", n |-> x.n * y.n, d |-> x.d * y.d]

\* a / b (a zero divisor is +0: no operand of the scoring code is -0)
Div(a, b) ==
    LET x == ToNumber(a)
        y == ToNumber(b)
    IN  CASE x.kind = "NaN" \/ y.kind = "NaN" -> NaN
          [] x.kind = "Infinity" /\ y.kind = "Infinity" -> NaN
          [] x.kind = "Infinity" ->
                IF Sign(x) * Sign(y) < 0 THEN NegInfinity ELSE PosInfinity
          [] y.kind = "Infinity" -> Num(0)
          [] y.n = 0 ->
                IF x.n = 0 THEN NaN
                ELSE IF x.n > 0 THEN PosInfinity ELSE NegInfinity
          [] OTHER ->
                IF y.n > 0
                    THEN [kind |-> "number", n |-> x.n * y.d, d |-> x.d * y.n]
                    ELSE [kind |-> "number", n |-> -(x.n * y.d), d |-> -(x.d * y.n)]

\* Math.max(a, b, c): NaN as soon as an argument is NaN.
MathMax(a, b, c) ==
    LET x == ToNumber(a)
        y == ToNumber(b)
        z == ToNumber(c)
        m == IF Lt(x, y) THEN y ELSE x
    IN  IF x.kind = "NaN" \/ y.kind = "NaN" \/ z.kind = "NaN" THEN NaN
        ELSE IF Lt(m, z) THEN z ELSE m

\* x.toFixed(2): the decimal string with two fraction digits, modelled by the
\* number it denotes (k/100, the nearest to x, the larger on a tie), or the
\* strings "NaN" and "Infinity" by those values.
ToFixed2(a) ==
    LET x == ToNumber(a)
        m == IF x.n < 0 THEN -x.n ELSE x.n
        k == (200 * m + x.d) \div (2 * x.d)
    IN  IF x.kind # "number" THEN x
        ELSE [kind |-> "number", n |-> IF x.n < 0 THEN -k ELSE k, d |-> 100]

-----------------------------------------------------------------------------
(* src/config.js                                                           *)

LIQUIDITY_LOW == 10000

LIQUIDITY_MEDIUM == 100000

Levels == {"LOW", "MEDIUM", "HIGH"}

-----------------------------------------------------------------------------
(* src/utils.js: calculateRiskAnalysis                                     *)

\* The object calculateRiskAnalysis starts from.
DefaultRisks ==
    [rugPull |-> [level |-> "LOW", score |-> 2],
     liquidity |-> [level |-> "LOW", score |-> 2],
     holderConcentration |-> [level |-> "MEDIUM", score |-> 5],
     volatility |-> [level |-> "MEDIUM", score |-> 5],
     overall |-> [level |-> "MEDIUM", score |-> 5]]

\* LiquidityRisk that leaves rugPull alone in the MEDIUM branch.
LiquidityRisk_RugPullForgotten(r, liquidity) ==
    IF Lt(liquidity, Num(LIQUIDITY_LOW))
        THEN [r EXCEPT !.liquidity = [level |-> "HIGH", score |-> 9],
                       !.rugPull = [level |-> "HIGH", score |-> 8]]
    ELSE IF Lt(liquidity, Num(LIQUIDITY_MEDIUM))
        THEN [r EXCEPT !.liquidity = [level |-> "MEDIUM", score |-> 6]]
    ELSE r

\* LiquidityRisk with <= in place of <.
LiquidityRisk_Inclusive(r, liquidity) ==
    IF Le(liquidity, Num(LIQUIDITY_LOW))
        THEN [r EXCEPT !.liquidity = [level |-> "HIGH", score |-> 9],
                       !.rugPull = [level |-> "HIGH", score |-> 8]]
    ELSE IF Le(liquidity, Num(LIQUIDITY_MEDIUM))
        THEN [r EXCEPT !.liquidity = [level |-> "MEDIUM", score |-> 6],
                       !.rugPull = [level |-> "MEDIUM", score |-> 5]]
    ELSE r

\* "Liquidity risk": sets the liquidity and the rugPull entries together.
LiquidityRisk(r, liquidity) ==
    IF Lt(liquidity, Num(LIQUIDITY_LOW))
        THEN [r EXCEPT !.liquidity = [level |-> "HIGH", score |-> 9],
                       !.rugPull = [level |-> "HIGH", score |-> 8]]
    ELSE IF Lt(liquidity, Num(LIQUIDITY_MEDIUM))
        THEN [r EXCEPT !.liquidity = [level |-> "MEDIUM", score |-> 6],
                       !.rugPull = [level |-> "MEDIUM", score |-> 5]]
    ELSE r

\* "Volatility risk based on 24h price change"
VolatilityRisk(r, priceChange24h) ==
    IF Gt(priceChange24h, Num(50))
        THEN [r EXCEPT !.volatility = [level |-> "HIGH", score |-> 9]]
    ELSE IF Gt(priceChange24h, Num(20))
        THEN [r EXCEPT !.volatility = [level |-> "MEDIUM", score |-> 6]]
    ELSE [r EXCEPT !.volatility = [level |-> "LOW", score |-> 3]]

\* HolderConcentrationRisk counting the buys only.
HolderConcentrationRisk_BuysOnly(r, buys, sells) ==
    LET totalTxns == buys
    IN  IF Lt(totalTxns, Num(50))
            THEN [r EXCEPT !.holderConcentration = [level |-> "HIGH", score |-> 8]]
        ELSE IF Lt(totalTxns, Num(200))
            THEN [r EXCEPT !.holderConcentration = [level |-> "MEDIUM", score |-> 5]]
        ELSE [r EXCEPT !.holderConcentration = [level |-> "LOW", score |-> 3]]

\* HolderConcentrationRisk with <= in place of <.
HolderConcentrationRisk_Inclusive(r, buys, sells) ==
    LET totalTxns == Add(buys, sells)
    IN  IF Le(totalTxns, Num(50))
            THEN [r EXCEPT !.holderConcentration = [level |-> "HIGH", score |-> 8]]
        ELSE IF Le(totalTxns, Num(200))
            THEN [r EXCEPT !.holderConcentration = [level |-> "MEDIUM", score |-> 5]]
        ELSE [r EXCEPT !.holderConcentration = [level |-> "LOW", score |-> 3]]

\* "Holder concentration (estimated from buy/sell ratio)"
HolderConcentrationRisk(r, buys, sells) ==
    LET totalTxns == Add(buys, sells)
    IN  IF Lt(totalTxns, Num(50))
            THEN [r EXCEPT !.holderConcentration = [level |-> "HIGH", score |-> 8]]
        ELSE IF Lt(totalTxns, Num(200))
            THEN [r EXCEPT !.holderConcentration = [level |-> "MEDIUM", score |-> 5]]
        ELSE [r EXCEPT !.holderConcentration = [level |-> "LOW", score |-> 3]]

\* WeightedScore100 without the weights: the plain sum of the four scores.
WeightedScore100_Unweighted(r) ==
    100 * (r.rugPull.score + r.liquidity.score
            + r.holderConcentration.score + r.volatility.score)

\* The weighted sum rugPull*0.3 + liquidity*0.25 + holderConcentration*0.25 +
\* volatility*0.2, in hundredths.  The scores are the integers set above, so
\* the sum is a whole number of hundredths.  The code adds the four products
\* as doubles; for each of the 27 combinations of scores the three blocks
\* above can produce, the double sum lies on the same side of every half as
\* the exact sum, and the one exact half (8, 9, 5, 3: 6.50) is the double 6.5.
WeightedScore100(r) ==
    r.rugPull.score * 30 + r.liquidity.score * 25
        + r.holderConcentration.score * 25 + r.volatility.score * 20

\* MathRound100 as Math.floor.
MathRound100_Floor(h) == h \div 100

\* Math.round of a value given in hundredths: floor(x + 0.5).
MathRound100(h) == (h + 50) \div 100

\* "Calculate overall risk score (weighted average)" and its level.
OverallRisk(r) ==
    LET overallScore == MathRound100(WeightedScore100(r))
    IN  IF overallScore >= 7
            THEN [r EXCEPT !.overall = [level |-> "HIGH", score |-> overallScore]]
        ELSE IF overallScore >= 4
            THEN [r EXCEPT !.overall = [level |-> "MEDIUM", score |-> overallScore]]
        ELSE [r EXCEPT !.overall = [level |-> "LOW", score |-> overallScore]]

\* OrZero without the default: the field as it is.
OrZero_NoDefault(v) == v

\* tokenData.<field> || 0
OrZero(v) == Or(v, Num(0))

calculateRiskAnalysis(td) ==
    LET liquidity == OrZero(td.liquidity.usd)
        volume24h == OrZero(td.volume.h24)
        priceChange24h == Abs(OrZero(td.priceChange.h24))
        buys == OrZero(td.txns.h24.buys)
        sells == OrZero(td.txns.h24.sells)
    IN  OverallRisk(
            HolderConcentrationRisk(
                VolatilityRisk(
                    LiquidityRisk(DefaultRisks, liquidity),
                    priceChange24h),
                buys, sells))

-----------------------------------------------------------------------------
(* src/utils.js: analyzeSentiment                                          *)

\* JavaScript number literals with a fraction.
Frac(n, d) == [kind |-> "number", n |-> n, d |-> d]

\* recentVolumeRatio: the division is made whatever volume24h is.
RecentVolumeRatio(volume1h, volume24h) == Div(Mul(volume1h, Num(24)), volume24h)

\* "Volume trend"
VolumeTrend(volume1h, volume24h) ==
    LET recentVolumeRatio == RecentVolumeRatio(volume1h, volume24h)
    IN  IF Gt(recentVolumeRatio, Frac(3, 2)) THEN "Increasing"
        ELSE IF Lt(recentVolumeRatio, Frac(1, 2)) THEN "Decreasing"
        ELSE "Stable"

\* BuySellRatio dividing whenever there are sells or buys.
BuySellRatio_AlwaysDivides(buys, sells) == Div(buys, sells)

\* buySellRatio
BuySellRatio(buys, sells) == IF Gt(sells, Num(0)) THEN Div(buys, sells) ELSE buys

\* "Whale activity (based on transaction patterns)"
WhaleActivity(buySellRatio) ==
    IF Gt(buySellRatio, Num(2)) THEN "Accumulation"
    ELSE IF Lt(buySellRatio, Frac(1, 2)) THEN "Distribution"
    ELSE "Neutral"

\* "Community hype level"
HypeLevel(totalTxns, volume24h) ==
    IF Gt(totalTxns, Num(1000)) /\ Gt(volume24h, Num(100000)) THEN "High"
    ELSE IF Lt(totalTxns, Num(100)) \/ Lt(volume24h, Num(10000)) THEN "Low"
    ELSE "Medium"

\* "Price volatility"
PriceVolatility(priceChange24h, priceChange6h, priceChange1h) ==
    LET maxChange == MathMax(Abs(priceChange24h),
                             Mul(Abs(priceChange6h), Num(4)),
                             Mul(Abs(priceChange1h), Num(24)))
    IN  IF Gt(maxChange, Num(50)) THEN "High"
        ELSE IF Lt(maxChange, Num(10)) THEN "Low"
        ELSE "Medium"

\* TrendDirection looking at the 24h change alone.
TrendDirection_24hOnly(priceChange24h, priceChange6h) ==
    IF Gt(priceChange24h, Num(10)) THEN "Bullish"
    ELSE IF Lt(priceChange24h, Num(-10)) THEN "Bearish"
    ELSE "Neutral"

\* "Overall trend direction"
TrendDirection(priceChange24h, priceChange6h) ==
    IF Gt(priceChange24h, Num(10)) /\ Gt(priceChange6h, Num(0)) THEN "Bullish"
    ELSE IF Lt(priceChange24h, Num(-10)) /\ Lt(priceChange6h, Num(0)) THEN "Bearish"
    ELSE "Neutral"

analyzeSentiment(td) ==
    LET volume24h == OrZero(td.volume.h24)
        volume6h == Or(td.volume.h6, Div(volume24h, Num(4)))
        volume1h == Or(td.volume.h1, Div(volume24h, Num(24)))
        priceChange24h == OrZero(td.priceChange.h24)
        priceChange6h == OrZero(td.priceChange.h6)
        priceChange1h == OrZero(td.priceChange.h1)
        buys == OrZero(td.txns.h24.buys)
        sells == OrZero(td.txns.h24.sells)
        buySellRatio == BuySellRatio(buys, sells)
        totalTxns == Add(buys, sells)
    IN  [volumeTrend |-> VolumeTrend(volume1h, volume24h),
         whaleActivity |-> WhaleActivity(buySellRatio),
         hypeLevel |-> HypeLevel(totalTxns, volume24h),
         volatility |-> PriceVolatility(priceChange24h, priceChange6h, priceChange1h),
         trendDirection |-> TrendDirection(priceChange24h, priceChange6h),
         buySellRatio |-> ToFixed2(buySellRatio),
         transactionCount |-> totalTxns]

-----------------------------------------------------------------------------
(* src/utils.js: generateVerdict                                           *)

\* ProjectStrength with || in place of && in the Strong condition.
ProjectStrength_StrongOr(overallScore, liquidity) ==
    IF overallScore <= 4 \/ Gt(liquidity, Num(100000)) THEN "Strong"
    ELSE IF overallScore >= 7 \/ Lt(liquidity, Num(10000)) THEN "Weak"
    ELSE "Moderate"

\* "Determine project strength": the first branch whose condition holds.
ProjectStrength(overallScore, liquidity) ==
    IF overallScore <= 4 /\ Gt(liquidity, Num(100000)) THEN "Strong"
    ELSE IF overallScore >= 7 \/ Lt(liquidity, Num(10000)) THEN "Weak"
    ELSE "Moderate"

\* The audience tags of each strength.
SuitableFor(strength) ==
    CASE strength = "Strong" -> <<"Mid-term holders", "Memecoin investors">>
      [] strength = "Weak" -> <<"High-risk speculators only">>
      [] OTHER -> <<"Short-term traders", "High-risk memecoin investors">>

\* The summary is a concatenation of sentences; it is kept as their sequence.
StrengthSummary(strength) ==
    CASE strength = "Strong" ->
            <<"This token shows relatively healthy metrics with adequate liquidity and trading activity. ">>
      [] strength = "Weak" ->
            <<"This token carries significant risk factors. Low liquidity and/or concerning metrics suggest extreme caution. ">>
      [] OTHER ->
            <<"This token shows mixed signals with moderate risk levels. ">>

TrendSummary(s) ==
    IF s.trendDirection = "Bullish"
        THEN <<"Current momentum appears positive with buying pressure outweighing selling. ">>
    ELSE IF s.trendDirection = "Bearish"
        THEN <<"Current momentum shows selling pressure which may indicate profit-taking or declining interest. ">>
    ELSE <<>>

VolumeSummary(s) ==
    IF s.volumeTrend = "Increasing"
        THEN <<"Volume is trending upward, suggesting growing interest.">>
    ELSE IF s.volumeTrend = "Decreasing"
        THEN <<"Volume is declining, which may impact price stability.">>
    ELSE <<>>

generateVerdict(td, r, s) ==
    LET liquidity == OrZero(td.liquidity.usd)
        volume24h == OrZero(td.volume.h24)
        priceChange24h == OrZero(td.priceChange.h24)
        strength == ProjectStrength(r.overall.score, liquidity)
    IN  [strength |-> strength,
         suitableFor |-> SuitableFor(strength),
         summary |-> StrengthSummary(strength) \o TrendSummary(s) \o VolumeSummary(s),
         riskScore |-> r.overall.score,
         riskLevel |-> r.overall.level]

-----------------------------------------------------------------------------
(* The snapshots: each field is undefined, null or a number.  The numbers  *)
(* are the worked examples of the documentation and the values within      *)
(* MaxDelta of each threshold the code compares the field with.            *)

Near(t) == {Num(i) : i \in (t - MaxDelta)..(t + MaxDelta)}

NegNear(t) == {Num(-i) : i \in (t - MaxDelta)..(t + MaxDelta)}

LiquidityValues ==
    {Undefined, Null, Num(-1), Num(0), Num(5000), Num(200000), Num(2000000000)}
        \cup Near(LIQUIDITY_LOW) \cup Near(LIQUIDITY_MEDIUM)

PriceChange24hValues ==
    {Undefined, Null, Num(5), Num(80), Num(1000000)} \cup Near(20) \cup Near(50) \cup NegNear(50)

PriceChange6hValues == {Undefined, Num(-1), Num(1)}

BuysValues == {Undefined, Num(0), Num(10), Num(300)}

SellsValues == {Undefined, Null, Num(40), Num(250)} \cup Near(50) \cup Near(200)

\* (h24, h1) pairs: no volume, an absent 1h bucket, a rising and a falling one.
VolumeValues ==
    {[h24 |-> Undefined, h6 |-> Undefined, h1 |-> Undefined],
     [h24 |-> Num(2000), h6 |-> Undefined, h1 |-> Undefined],
     [h24 |-> Num(2000), h6 |-> Num(500), h1 |-> Num(5000)],
     [h24 |-> Num(50000), h6 |-> Num(9000), h1 |-> Num(100)]}

Snapshots ==
    {[liquidity |-> [usd |-> l],
      volume |-> v,
      priceChange |-> [h24 |-> p24, h6 |-> p6, h1 |-> Undefined],
      txns |-> [h24 |-> [buys |-> b, sells |-> s]]] :
        l \in LiquidityValues, v \in VolumeValues, p24 \in PriceChange24hValues,
        p6 \in PriceChange6hValues, b \in BuysValues, s \in SellsValues}

\* No text has been submitted.
NoInput == input = None /\ validation = None /\ blocked = None

\* Nothing has been rendered of the momentum card or of the predictions.
NotRendered == momentum = None /\ predictions = None

\* No dev check has been asked for.
NoDevCheck == devFacts = None /\ apiData = None /\ devAnalysis = None

\* No dev cache is in use.
NoDevCache == cache = None /\ now = None /\ call = None /\ read = None

\* No wallet has been looked up.
NoWallet == walletFacts = None /\ walletResponse = None /\ walletSummary = None

\* getTokenDirect has not been called.
NoDirect == sources = None /\ contacted = None /\ direct = None

\* No price is being formatted.
NoPrice == price = None /\ formatted = None

\* No FreshPairsManager has been constructed.
NoFresh == isLoading = None /\ fetches = None /\ pairs = None /\ refreshInterval = None

NoAfterDirect == NoPrice /\ NoFresh

NoAfterWallet == NoDirect /\ NoAfterDirect

NoAfterCache == NoWallet /\ NoAfterWallet

\* None of the services behind the page is in use.
NoServices == NoDevCache /\ NoAfterCache

-----------------------------------------------------------------------------
(* renderTokenData (src/app.js): the three calls, in the order it makes    *)
(* them, on the pair it was given.                                         *)

Init ==
    /\ tokenData \in Snapshots
    /\ sentiment = None
    /\ risks = None
    /\ verdict = None
    /\ pc = "analyzeSentiment"
    /\ NoInput
    /\ NotRendered
    /\ NoDevCheck
    /\ NoServices

AnalyzeSentiment ==
    /\ pc = "analyzeSentiment"
    /\ sentiment' = analyzeSentiment(tokenData)
    /\ pc' = "calculateRiskAnalysis"
    /\ UNCHANGED <<tokenData, risks, verdict, inputVars, momentum, predictions, devVars, serviceVars>>

CalculateRiskAnalysis ==
    /\ pc = "calculateRiskAnalysis"
    /\ risks' = calculateRiskAnalysis(tokenData)
    /\ pc' = "generateVerdict"
    /\ UNCHANGED <<tokenData, sentiment, verdict, inputVars, momentum, predictions, devVars, serviceVars>>

GenerateVerdict ==
    /\ pc = "generateVerdict"
    /\ verdict' = generateVerdict(tokenData, risks, sentiment)
    /\ pc' = "done"
    /\ UNCHANGED <<tokenData, sentiment, risks, inputVars, momentum, predictions, devVars, serviceVars>>

Next == AnalyzeSentiment \/ CalculateRiskAnalysis \/ GenerateVerdict

Spec == Init /\ [][Next]_vars

-----------------------------------------------------------------------------
(* The same calls on snapshots that reach around the thresholds of         *)
(* analyzeSentiment: the volumes and the transaction counts vary together, *)
(* and so do the three price changes.                                      *)

SentimentVolumeValues ==
    {[h24 |-> h24, h6 |-> Undefined, h1 |-> h1] :
        h24 \in {Undefined, Num(0), Num(2000)} \cup Near(1600) \cup Near(4800),
        h1 \in {Undefined, Num(0), Num(100)}}

SentimentTxnsValues ==
    {[h24 |-> [buys |-> b, sells |-> x]] :
        b \in {Undefined, Num(0), Num(1), Num(2), Num(3), Num(100)},
        x \in {Undefined, Num(0)} \cup Near(50) \cup Near(200)}

SentimentPriceChangeValues ==
    {[h24 |-> p24, h6 |-> p6, h1 |-> p1] :
        p24 \in {Undefined, Num(0)} \cup Near(10) \cup NegNear(10),
        p6 \in {Undefined, Null, Num(0), Num(-1), Num(1)},
        p1 \in {Undefined, Num(3)}}

SentimentSnapshots ==
    {[liquidity |-> [usd |-> Num(200000)], volume |-> v, priceChange |-> p, txns |-> t] :
        v \in SentimentVolumeValues, t \in SentimentTxnsValues,
        p \in {[h24 |-> Undefined, h6 |-> Undefined, h1 |-> Undefined],
               [h24 |-> Num(11), h6 |-> Num(1), h1 |-> Undefined]}}
    \cup
    {[liquidity |-> [usd |-> Num(5000)], volume |-> v, priceChange |-> p, txns |-> t] :
        v \in {[h24 |-> Undefined, h6 |-> Undefined, h1 |-> Undefined],
               [h24 |-> Num(2000), h6 |-> Undefined, h1 |-> Num(100)]},
        t \in {[h24 |-> [buys |-> Undefined, sells |-> Undefined]],
               [h24 |-> [buys |-> Num(100), sells |-> Num(50)]]},
        p \in SentimentPriceChangeValues}

InitSentiment ==
    /\ tokenData \in SentimentSnapshots
    /\ sentiment = None
    /\ risks = None
    /\ verdict = None
    /\ pc = "analyzeSentiment"
    /\ NoInput
    /\ NotRendered
    /\ NoDevCheck
    /\ NoServices

SpecSentiment == InitSentiment /\ [][Next]_vars

-----------------------------------------------------------------------------
(* validateInput, isContractAddress and isBlockedToken (src/utils.js).  A  *)
(* string is the sequence of its characters.                               *)

\* Longest run of whitespace put before and after a submitted text.
MaxPad == 1

Str(text) == [kind |-> "string", text |-> text]

Bool(b) == [kind |-> "boolean", b |-> b]

\* The characters String.prototype.trim() strips, among those drawn here.
Whitespace == {" ", "\t", "\n"}

LowerCaseLetters == <<"a", "b", "c", "d", "e", "f", "g", "h", "i", "j", "k", "l", "m",
    "n", "o", "p", "q", "r", "s", "t", "u", "v", "w", "x", "y", "z">>

UpperCaseLetters == <<"A", "B", "C", "D", "E", "F", "G", "H", "I", "J", "K", "L", "M",
    "N", "O", "P", "Q", "R", "S", "T", "U", "V", "W", "X", "Y", "Z">>

Letter(c) == CHOOSE i \in 1..26 : c \in {LowerCaseLetters[i], UpperCaseLetters[i]}

IsLetter(c) == \E i \in 1..26 : c \in {LowerCaseLetters[i], UpperCaseLetters[i]}

ToUpperCase(s) ==
    [i \in 1..Len(s) |-> IF IsLetter(s[i]) THEN UpperCaseLetters[Letter(s[i])] ELSE s[i]]

ToLowerCase(s) ==
    [i \in 1..Len(s) |-> IF IsLetter(s[i]) THEN LowerCaseLetters[Letter(s[i])] ELSE s[i]]

RECURSIVE TrimStart(_)
TrimStart(s) ==
    IF Len(s) > 0 /\ s[1] \in Whitespace THEN TrimStart(Tail(s)) ELSE s

RECURSIVE TrimEnd(_)
TrimEnd(s) ==
    IF Len(s) > 0 /\ s[Len(s)] \in Whitespace
        THEN TrimEnd(SubSeq(s, 1, Len(s) - 1))
        ELSE s

Trim(s) == TrimEnd(TrimStart(s))

Includes(s, c) == \E i \in 1..Len(s) : s[i] = c

\* [a-fA-F0-9]
HexDigits == {"a", "b", "c", "d", "e", "f", "A", "B", "C", "D", "E", "F", "0",
    "1", "2", "3", "4", "5", "6", "7", "8", "9"}

\* [1-9A-HJ-NP-Za-km-z]
Base58 == {"1", "2", "3", "4", "5", "6", "7", "8", "9", "A", "B", "C", "D",
    "E", "F", "G", "H", "J", "K", "L", "M", "N", "P", "Q", "R", "S",
    "T", "U", "V", "W", "X", "Y", "Z", "a", "b", "c", "d", "e", "f",
    "g", "h", "i", "j", "k", "m", "n", "o", "p", "q", "r", "s", "t",
    "u", "v", "w", "x", "y", "z"}

isContractAddress(in) ==
    IF Len(in) = 0 THEN FALSE
    ELSE IF /\ Len(in) = 42
            /\ in[1] = "0"
            /\ in[2] = "x"
            /\ \A i \in 3..42 : in[i] \in HexDigits
        THEN TRUE
    ELSE IF Len(in) \in 32..44 /\ \A i \in 1..Len(in) : in[i] \in Base58
        THEN TRUE
    ELSE FALSE

BLOCKED_TOKENS ==
    {
      <<"B", "T", "C">>, <<"B", "I", "T", "C", "O", "I", "N">>,
      <<"E", "T", "H">>, <<"E", "T", "H", "E", "R", "E", "U", "M">>,
      <<"U", "S", "D", "T">>, <<"T", "E", "T", "H", "E", "R">>,
      <<"U", "S", "D", "C">>, <<"U", "S", "D", " ", "C", "O", "I", "N">>,
      <<"B", "N", "B">>, <<"B", "I", "N", "A", "N", "C", "E">>,
      <<"X", "R", "P">>, <<"R", "I", "P", "P", "L", "E">>,
      <<"S", "O", "L">>, <<"S", "O", "L", "A", "N", "A">>,
      <<"A", "D", "A">>, <<"C", "A", "R", "D", "A", "N", "O">>,
      <<"D", "O", "G", "E">>, <<"D", "O", "G", "E", "C", "O", "I", "N">>,
      <<"D", "O", "T">>, <<"P", "O", "L", "K", "A", "D", "O", "T">>,
      <<"M", "A", "T", "I", "C">>, <<"P", "O", "L", "Y", "G", "O", "N">>,
      <<"A", "V", "A", "X">>, <<"A", "V", "A", "L", "A", "N", "C", "H", "E">>,
      <<"L", "I", "N", "K">>, <<"C", "H", "A", "I", "N", "L", "I", "N", "K">>,
      <<"L", "T", "C">>, <<"L", "I", "T", "E", "C", "O", "I", "N">>,
      <<"A", "T", "O", "M">>, <<"C", "O", "S", "M", "O", "S">>,
      <<"U", "N", "I">>, <<"U", "N", "I", "S", "W", "A", "P">>,
      <<"S", "H", "I", "B">>
    }

isBlockedToken(ticker) ==
    IF Len(ticker) = 0 THEN FALSE
    ELSE Trim(ToUpperCase(ticker)) \in BLOCKED_TOKENS

EmptyInputError == Str("Please enter a token ticker or contract address")

OneTokenError == Str("Please enter only ONE token at a time")

BlockedTokenError ==
    Str("This AI Agent only analyzes MEMECOINS. Large-cap tokens like BTC, ETH, SOL are not supported.")

Invalid(error) == [valid |-> FALSE, error |-> error, type |-> Null]

Valid(type) == [valid |-> TRUE, error |-> Null, type |-> Str(type)]

\* validateInput with the deny-list consulted before anything else about
\* the trimmed text.
validateInput_BlockedFirst(in) ==
    IF Len(in) = 0 \/ Len(Trim(in)) = 0 THEN Invalid(EmptyInputError)
    ELSE LET trimmed == Trim(in)
         IN  IF isBlockedToken(trimmed) THEN Invalid(BlockedTokenError)
             ELSE IF Includes(trimmed, ",") \/ Includes(trimmed, " ")
                 THEN Invalid(OneTokenError)
             ELSE IF isContractAddress(trimmed) THEN Valid("address")
             ELSE Valid("ticker")

validateInput(in) ==
    IF Len(in) = 0 \/ Len(Trim(in)) = 0 THEN Invalid(EmptyInputError)
    ELSE LET trimmed == Trim(in)
         IN  IF Includes(trimmed, ",") \/ Includes(trimmed, " ")
                 THEN Invalid(OneTokenError)
             ELSE IF isContractAddress(trimmed) THEN Valid("address")
             ELSE IF isBlockedToken(trimmed) THEN Invalid(BlockedTokenError)
             ELSE Valid("ticker")

\* The texts submitted: every deny-list entry in three spellings, tickers
\* that are not on the list, texts with separators, texts of and around the
\* two address shapes, each between runs of whitespace.
Repeat(c, n) == [i \in 1..n |-> c]

Capitalise(s) ==
    [i \in 1..Len(s) |-> IF i = 1 THEN ToUpperCase(s)[i] ELSE ToLowerCase(s)[i]]

Pads == UNION {[1..n -> Whitespace] : n \in 0..MaxPad}

TickerTexts ==
    UNION {{t, ToLowerCase(t), Capitalise(t)} : t \in BLOCKED_TOKENS}
    \cup {<<>>, <<"P", "E", "P", "E">>, <<"w", "i", "f">>, <<"B", "T">>,
          <<"B", "T", "C", "X">>, <<"$", "B", "T", "C">>,
          <<"B", "T", "C", ",", "E", "T", "H">>, <<"w", "i", "f", " ", "h", "a", "t">>,
          <<"w", "i", "f", "\t", "h", "a", "t">>, <<",">>}

AddressTexts ==
    {<<"0", "x">> \o Repeat("a", 40), <<"0", "x">> \o Repeat("F", 39) \o <<"9">>,
     <<"0", "x">> \o Repeat("a", 39), <<"0", "x">> \o Repeat("a", 41),
     <<"0", "X">> \o Repeat("a", 40), <<"0", "x">> \o Repeat("a", 39) \o <<"g">>,
     <<"0", "x">> \o Repeat("a", 20) \o <<" ">> \o Repeat("a", 19),
     Repeat("1", 32), Repeat("z", 44), Repeat("A", 31), Repeat("A", 45),
     Repeat("A", 31) \o <<"0">>, Repeat("A", 31) \o <<"O">>,
     Repeat("A", 31) \o <<"I">>, Repeat("A", 31) \o <<"l">>,
     Repeat("k", 16) \o <<",">> \o Repeat("m", 16)}

Inputs == {l \o t \o r : l \in Pads, r \in Pads, t \in TickerTexts \cup AddressTexts}

InitInput ==
    /\ input \in Inputs
    /\ validation = None
    /\ blocked = None
    /\ tokenData = None
    /\ sentiment = None
    /\ risks = None
    /\ verdict = None
    /\ pc = "validateInput"
    /\ NotRendered
    /\ NoDevCheck
    /\ NoServices

ValidateInput ==
    /\ pc = "validateInput"
    /\ validation = None
    /\ validation' = validateInput(input)
    /\ UNCHANGED <<tokenData, sentiment, risks, verdict, pc, input, blocked, momentum, predictions, devVars, serviceVars>>

IsBlockedToken ==
    /\ pc = "validateInput"
    /\ blocked = None
    /\ blocked' = Bool(isBlockedToken(input))
    /\ UNCHANGED <<tokenData, sentiment, risks, verdict, pc, input, validation, momentum, predictions, devVars, serviceVars>>

NextInput == ValidateInput \/ IsBlockedToken

SpecInput == InitInput /\ [][NextInput]_vars

-----------------------------------------------------------------------------
(* renderMomentumScore (src/app.js): the score and the texts it puts on    *)
(* the momentum card.                                                      *)

RECURSIVE Gcd(_, _)
Gcd(a, b) == IF b = 0 THEN a ELSE Gcd(b, a % b)

\* The same number in lowest terms.
Reduce(v) ==
    IF v.kind = "number"
        THEN LET g == Gcd(IF v.n < 0 THEN -v.n ELSE v.n, v.d)
             IN  [kind |-> "number", n |-> v.n \div g, d |-> v.d \div g]
        ELSE v

\* Math.min(a, b): NaN as soon as an argument is NaN.
MathMin(a, b) ==
    LET x == ToNumber(a)
        y == ToNumber(b)
    IN  IF x.kind = "NaN" \/ y.kind = "NaN" THEN NaN
        ELSE IF Lt(y, x) THEN y ELSE x

\* Math.max(a, b)
MathMax2(a, b) ==
    LET x == ToNumber(a)
        y == ToNumber(b)
    IN  IF x.kind = "NaN" \/ y.kind = "NaN" THEN NaN
        ELSE IF Lt(x, y) THEN y ELSE x

\* Math.round(a): the integer nearest to a, a tie going up.
MathRound(a) ==
    LET x == Reduce(ToNumber(a))
    IN  IF x.kind = "number" THEN Num((2 * x.n + x.d) \div (2 * x.d)) ELSE x

\* log10 of the integers the snapshots below lead to, in thousandths.
Log10Thousandths ==
    (1 :> 0) @@ (2 :> 301) @@ (3 :> 477) @@ (5 :> 699) @@ (6 :> 778)
    @@ (7 :> 845) @@ (10 :> 1000) @@ (11 :> 1041) @@ (12 :> 1079)
    @@ (15 :> 1176) @@ (16 :> 1204) @@ (21 :> 1322) @@ (26 :> 1415)
    @@ (27 :> 1431) @@ (28 :> 1447) @@ (30 :> 1477) @@ (31 :> 1491)
    @@ (36 :> 1556) @@ (37 :> 1568) @@ (100 :> 2000) @@ (101 :> 2004)
    @@ (102 :> 2009) @@ (106 :> 2025) @@ (111 :> 2045) @@ (126 :> 2100)
    @@ (127 :> 2104) @@ (301 :> 2479) @@ (302 :> 2480) @@ (305 :> 2484)
    @@ (311 :> 2493) @@ (401 :> 2603) @@ (2001 :> 3301) @@ (2002 :> 3301)
    @@ (2005 :> 3302) @@ (2011 :> 3303) @@ (2101 :> 3322) @@ (2501 :> 3398)
    @@ (10000 :> 4000) @@ (1000000 :> 6000) @@ (1000001 :> 6000)
    @@ (10000001 :> 7000)

\* Math.log10(a)
Log10(a) ==
    LET x == Reduce(ToNumber(a))
    IN  CASE x.kind = "NaN" -> NaN
          [] x.kind = "Infinity" -> IF x.n > 0 THEN PosInfinity ELSE NaN
          [] x.n < 0 -> NaN
          [] x.n = 0 -> NegInfinity
          [] OTHER -> Frac(Log10Thousandths[x.n], 1000)

\* The label of the card without its emoji, and its colour.
MomentumLabel(totalScore) ==
    IF Le(Num(70), totalScore) THEN [label |-> "STRONG", color |-> "#00ff88"]
    ELSE IF Le(Num(50), totalScore) THEN [label |-> "MODERATE", color |-> "#ffaa00"]
    ELSE IF Le(Num(30), totalScore) THEN [label |-> "WEAK", color |-> "#ff8844"]
    ELSE [label |-> "VERY WEAK", color |-> "#ff4444"]

\* The text of the momentumStrength element.
StrengthText(totalScore) ==
    IF Le(Num(70), totalScore) THEN "Strong"
    ELSE IF Le(Num(50), totalScore) THEN "Moderate"
    ELSE "Weak"

Sum(a, b) == Reduce(Add(a, b))

\* The four sub-scores and the flat 25, before clamping and rounding.
MomentumSubScores(pair) ==
    LET volume24h == Or(pair.volume.h24, Num(0))
        txns24h == Add(Or(pair.txns.h24.buys, Num(0)), Or(pair.txns.h24.sells, Num(0)))
        buys == Or(pair.txns.h24.buys, Num(0))
        sells == Or(pair.txns.h24.sells, Num(0))
        priceChange == Or(pair.priceChange.h24, Num(0))
    IN  [volumeScore |-> MathMin(Num(30), Mul(Log10(Add(volume24h, Num(1))), Num(5))),
         txScore |-> MathMin(Num(25), Mul(Log10(Add(txns24h, Num(1))), Num(8))),
         buyPressureScore |->
            IF Gt(sells, Num(0))
                THEN MathMin(Num(25), Mul(Div(buys, sells), Num(10)))
                ELSE Num(15),
         momentumScore |->
            IF Gt(priceChange, Num(0))
                THEN MathMin(Num(20), Mul(priceChange, Frac(1, 2)))
                ELSE MathMax2(Num(-10), Mul(priceChange, Frac(3, 10)))]

\* TotalScore without the clamp to [0, 100].
TotalScore_Unclamped(pair) ==
    LET s == MomentumSubScores(pair)
    IN  MathRound(Sum(Sum(Sum(Sum(s.volumeScore, s.txScore), s.buyPressureScore),
                          s.momentumScore), Num(25)))

TotalScore(pair) ==
    LET s == MomentumSubScores(pair)
    IN  MathRound(MathMax2(Num(0), MathMin(Num(100),
            Sum(Sum(Sum(Sum(s.volumeScore, s.txScore), s.buyPressureScore),
                    s.momentumScore), Num(25)))))

renderMomentumScore(pair, s) ==
    LET buys == Or(pair.txns.h24.buys, Num(0))
        sells == Or(pair.txns.h24.sells, Num(0))
        totalScore == TotalScore(pair)
        volumeChange ==
            IF Truthy(pair.volume.h24) /\ Truthy(pair.volume.h6)
                THEN MathRound(Mul(Add(Reduce(Div(Div(pair.volume.h24, Num(4)),
                                                  Or(pair.volume.h6, Num(1)))),
                                       Num(-1)), Num(100)))
                ELSE Num(0)
        ratio == IF Gt(sells, Num(0)) THEN Div(buys, sells) ELSE buys
        strengthText == StrengthText(totalScore)
    IN  [momentumScore |-> totalScore,
         momentumLabel |-> MomentumLabel(totalScore).label,
         color |-> MomentumLabel(totalScore).color,
         volumeSurge |-> volumeChange,
         volumeSurgeClass |-> IF Le(Num(0), volumeChange) THEN "positive" ELSE "negative",
         buyPressure |->
            IF Gt(ratio, Frac(3, 2)) THEN "Strong Buy"
            ELSE IF Lt(ratio, Frac(7, 10)) THEN "Sell Heavy"
            ELSE "Neutral",
         momentumWhales |-> s.whaleActivity,
         momentumStrength |-> strengthText,
         momentumStrengthClass |->
            IF strengthText = "Strong" THEN "positive"
            ELSE IF strengthText = "Weak" THEN "negative"
            ELSE "warning"]

MomentumVolumeValues ==
    {[h24 |-> h24, h6 |-> h6, h1 |-> Undefined] :
        h24 \in {Undefined, Num(0), Num(1), Num(9), Num(99), Num(2500), Num(9999), Num(999999), Num(1000000), Num(10000000)},
        h6 \in {Undefined, Num(100)}}

MomentumTxnsValues ==
    {[h24 |-> [buys |-> b, sells |-> x]] :
        b \in {Undefined, Num(0), Num(1), Num(5), Num(10), Num(25), Num(26), Num(300), Num(2000)},
        x \in {Undefined, Num(0), Num(1), Num(4), Num(10), Num(100)}}

MomentumPriceChangeValues ==
    {[h24 |-> p, h6 |-> Undefined, h1 |-> Undefined] :
        p \in {Undefined, Num(0), Num(1), Num(39), Num(40), Num(41), Num(1000000), Num(-1), Num(-33), Num(-34), Num(-100), Num(-1000000)}}

MomentumSnapshots ==
    {[liquidity |-> [usd |-> Num(200000)], volume |-> v, priceChange |-> p, txns |-> t] :
        v \in MomentumVolumeValues, p \in MomentumPriceChangeValues,
        t \in MomentumTxnsValues}

InitMomentum ==
    /\ tokenData \in MomentumSnapshots
    /\ sentiment = None
    /\ risks = None
    /\ verdict = None
    /\ pc = "analyzeSentiment"
    /\ NoInput
    /\ NotRendered
    /\ NoDevCheck
    /\ NoServices

\* renderTokenData calls renderMomentumScore once analyzeSentiment has
\* returned, before it calls calculateRiskAnalysis.
RenderMomentumScore ==
    /\ pc = "calculateRiskAnalysis"
    /\ momentum = None
    /\ momentum' = renderMomentumScore(tokenData, sentiment)
    /\ UNCHANGED <<tokenData, sentiment, risks, verdict, pc, inputVars, predictions, devVars, serviceVars>>

NextMomentum == AnalyzeSentiment \/ RenderMomentumScore

SpecMomentum == InitMomentum /\ [][NextMomentum]_vars

-----------------------------------------------------------------------------
(* generatePredictions (src/utils.js).  Math.random() is an argument: any  *)
(* of the values drawn below may come back from it.                        *)

Digits == <<"0", "1", "2", "3", "4", "5", "6", "7", "8", "9">>

IsDigit(c) == \E i \in 1..10 : Digits[i] = c

DigitValue(c) == (CHOOSE i \in 1..10 : Digits[i] = c) - 1

\* The first index from i on that holds no digit.
RECURSIVE DigitsEnd(_, _)
DigitsEnd(s, i) ==
    IF i <= Len(s) /\ IsDigit(s[i]) THEN DigitsEnd(s, i + 1) ELSE i

\* The value of the digits s[i], ..., s[j - 1].
RECURSIVE DigitsValue(_, _, _)
DigitsValue(s, i, j) ==
    IF i >= j THEN 0 ELSE DigitsValue(s, i, j - 1) * 10 + DigitValue(s[j - 1])

RECURSIVE Pow10(_)
Pow10(k) == IF k = 0 THEN 1 ELSE 10 * Pow10(k - 1)

\* parseFloat(v): the number written by the longest prefix of String(v),
\* after leading whitespace, of the form sign digits . digits; NaN when
\* that prefix holds no digit.  (Exponents and "Infinity" are not drawn.)
ParseFloat(v) ==
    CASE v.kind \in {"undefined", "null", "NaN"} -> NaN
      [] v.kind \in {"number", "Infinity"} -> v
      [] OTHER ->
            LET t == TrimStart(v.text)
                signed == Len(t) > 0 /\ t[1] \in {"+", "-"}
                a == IF signed THEN 2 ELSE 1
                b == DigitsEnd(t, a)
                dot == b <= Len(t) /\ t[b] = "."
                c == IF dot THEN DigitsEnd(t, b + 1) ELSE b
                fraction == IF dot THEN c - (b + 1) ELSE 0
                magnitude ==
                    DigitsValue(t, a, b) * Pow10(fraction)
                        + (IF dot THEN DigitsValue(t, b + 1, c) ELSE 0)
            IN  IF (b - a) + fraction = 0 THEN NaN
                ELSE Reduce(Frac(IF signed /\ t[1] = "-" THEN -magnitude ELSE magnitude,
                                 Pow10(fraction)))

Times(a, b) == Reduce(Mul(a, b))

Quotient(a, b) == Reduce(Div(a, b))

Range(base, low, high) == [low |-> Times(base, low), high |-> Times(base, high)]

\* BullishMultiplier without the cap of 3 on the volume term.
BullishMultiplier_Uncapped(marketCap, volume24h) ==
    LET volumeRatio == Quotient(volume24h, Or(marketCap, Num(1)))
    IN  Sum(Num(2), Times(volumeRatio, Num(10)))

BullishMultiplier(marketCap, volume24h) ==
    LET volumeRatio == Quotient(volume24h, Or(marketCap, Num(1)))
    IN  Sum(Num(2), MathMin(Times(volumeRatio, Num(10)), Num(3)))

\* generatePredictions with the jitter applied to the neutral band.
generatePredictions_Jittered(td, random) ==
    LET currentPrice == Or(ParseFloat(td.priceUsd), Num(0))
        marketCap == Or(Or(td.marketCap, td.fdv), Num(0))
        volume24h == Or(td.volume.h24, Num(0))
        bullishMultiplier == BullishMultiplier(marketCap, volume24h)
        neutralMultiplier == Sum(Frac(4, 5), Times(random, Frac(2, 5)))
    IN  [bullish |->
            [priceRange |->
                Range(currentPrice, Times(bullishMultiplier, Frac(1, 2)), bullishMultiplier),
             marketCapRange |->
                Range(marketCap, Times(bullishMultiplier, Frac(1, 2)), bullishMultiplier)],
         neutral |->
            [priceRange |->
                Range(currentPrice, Times(neutralMultiplier, Frac(1, 2)),
                      Times(neutralMultiplier, Frac(3, 2))),
             marketCapRange |->
                Range(marketCap, Times(neutralMultiplier, Frac(1, 2)),
                      Times(neutralMultiplier, Frac(3, 2)))],
         bearish |->
            [priceRange |-> Range(currentPrice, Frac(1, 20), Frac(3, 10)),
             marketCapRange |-> Range(marketCap, Frac(1, 20), Frac(3, 10))]]

generatePredictions(td, random) ==
    LET currentPrice == Or(ParseFloat(td.priceUsd), Num(0))
        marketCap == Or(Or(td.marketCap, td.fdv), Num(0))
        liquidity == Or(td.liquidity.usd, Num(0))
        volume24h == Or(td.volume.h24, Num(0))
        liquidityRatio == Quotient(liquidity, Or(marketCap, Num(1)))
        bullishMultiplier == BullishMultiplier(marketCap, volume24h)
        neutralMultiplier == Sum(Frac(4, 5), Times(random, Frac(2, 5)))
    IN  [bullish |->
            [priceRange |->
                Range(currentPrice, Times(bullishMultiplier, Frac(1, 2)), bullishMultiplier),
             marketCapRange |->
                Range(marketCap, Times(bullishMultiplier, Frac(1, 2)), bullishMultiplier)],
         neutral |->
            [priceRange |-> Range(currentPrice, Frac(1, 2), Frac(3, 2)),
             marketCapRange |-> Range(marketCap, Frac(1, 2), Frac(3, 2))],
         bearish |->
            [priceRange |-> Range(currentPrice, Frac(1, 20), Frac(3, 10)),
             marketCapRange |-> Range(marketCap, Frac(1, 20), Frac(3, 10))]]

\* What Math.random() may return: a number of [0, 1).
RandomValues == {Num(0), Frac(1, 4), Frac(1, 2), Frac(99, 100)}

PriceUsdValues ==
    {Undefined, Str(<<"0", ".", "0", "5">>), Str(<<"2", ".", "5">>), Str(<<"3">>), Str(<<"0">>),
     Str(<<"a", "b", "c">>), Str(<<"1", ".", "5", "x">>), Str(<<" ", "1", "2", ".", "5", "0">>), Str(<<>>)}

PredictionSnapshots ==
    {[priceUsd |-> p, marketCap |-> m, fdv |-> f,
      liquidity |-> [usd |-> Num(5000)], volume |-> [h24 |-> v]] :
        p \in PriceUsdValues,
        m \in {Undefined, Num(0), Num(1000)},
        f \in {Undefined, Num(2000)},
        v \in {Undefined, Num(0), Num(100), Num(100000)} \cup Near(300) \cup Near(600)}

InitPredictions ==
    /\ tokenData \in PredictionSnapshots
    /\ sentiment = None
    /\ risks = None
    /\ verdict = None
    /\ pc = "generatePredictions"
    /\ NoInput
    /\ NotRendered
    /\ NoDevCheck
    /\ NoServices

GeneratePredictions ==
    /\ pc = "generatePredictions"
    /\ \E random \in RandomValues :
        predictions' = generatePredictions(tokenData, random)
    /\ pc' = "done"
    /\ UNCHANGED <<tokenData, sentiment, risks, verdict, inputVars, momentum, devVars, serviceVars>>

NextPredictions == GeneratePredictions

SpecPredictions == InitPredictions /\ [][NextPredictions]_vars

-----------------------------------------------------------------------------
(* The same functions on snapshots that lack some of their numeric fields: *)
(* every field is there with a number or is absent, and the absent fields  *)
(* of a snapshot are all undefined or all null.                            *)

NumericFields ==
    {"priceUsd", "marketCap", "fdv", "liquidity.usd", "volume.h1", "volume.h6",
     "volume.h24", "priceChange.h1", "priceChange.h6", "priceChange.h24",
     "txns.h24.buys", "txns.h24.sells"}

\* The snapshot that lacks the fields of missing: absent stands in their
\* place.
SnapshotWithout(missing, absent) ==
    LET field(name, value) == IF name \in missing THEN absent ELSE value
    IN  [priceUsd |-> field("priceUsd", Str(<<"0", ".", "0", "5">>)),
         marketCap |-> field("marketCap", Num(1000)),
         fdv |-> field("fdv", Num(2000)),
         liquidity |-> [usd |-> field("liquidity.usd", Num(5000))],
         volume |->
            [h1 |-> field("volume.h1", Num(30)),
             h6 |-> field("volume.h6", Num(100)),
             h24 |-> field("volume.h24", Num(2500))],
         priceChange |->
            [h1 |-> field("priceChange.h1", Num(1)),
             h6 |-> field("priceChange.h6", Num(-1)),
             h24 |-> field("priceChange.h24", Num(39))],
         txns |->
            [h24 |->
                [buys |-> field("txns.h24.buys", Num(5)),
                 sells |-> field("txns.h24.sells", Num(4))]]]

MissingSnapshots ==
    {SnapshotWithout(missing, absent) :
        missing \in SUBSET NumericFields, absent \in {Undefined, Null}}

InitMissing ==
    /\ tokenData \in MissingSnapshots
    /\ sentiment = None
    /\ risks = None
    /\ verdict = None
    /\ pc = "analyzeSentiment"
    /\ NoInput
    /\ NotRendered
    /\ NoDevCheck
    /\ NoServices

\* generatePredictions(pair), called by itself
CallGeneratePredictions ==
    /\ predictions = None
    /\ \E random \in RandomValues :
        predictions' = generatePredictions(tokenData, random)
    /\ UNCHANGED <<tokenData, sentiment, risks, verdict, pc, inputVars, momentum, devVars,
                   serviceVars>>

NextMissing ==
    \/ AnalyzeSentiment
    \/ RenderMomentumScore
    \/ CalculateRiskAnalysis
    \/ CallGeneratePredictions

SpecMissing == InitMissing /\ [][NextMissing]_vars

-----------------------------------------------------------------------------
(* The Developer Trust check: the /api/check-dev handler, the DevChecker   *)
(* that calls it (src/unnamed/part_003), and the DevChecker of             *)
(* src/devChecker.js that scores a pair itself.  A badge is modelled       *)
(* without its emoji.                                                      *)

Clamp(lo, x, hi) == IF x < lo THEN lo ELSE IF x > hi THEN hi ELSE x

\* Risk level of the handler's clamped trust score.
RiskLevel(trustScore) ==
    IF trustScore >= 70 THEN "LOW"
    ELSE IF trustScore >= 40 THEN "MEDIUM"
    ELSE "DANGER"

\* /api/check-dev: the body of its 200 response, for a request that names
\* the mint (mintAddress) or the creator (creatorAddress).  chain holds
\* what the indexer answers; a lookup that failed or found nothing leaves
\* its field Undefined.
checkDev(mintAddress, creatorAddress, chain) ==
    LET deployerWallet == creatorAddress \/ (mintAddress /\ chain.deployerFound)
        asset == mintAddress /\ chain.assetFound
        mintAuthorityEnabled == asset /\ chain.mintAuthorityEnabled
        freezeAuthorityEnabled == asset /\ chain.freezeAuthorityEnabled
        top10HolderPercent ==
            IF mintAddress /\ chain.top10HolderPercent.kind = "number"
                THEN chain.top10HolderPercent.n
                ELSE 0
        newWallet ==
            /\ deployerWallet
            /\ chain.walletHours.kind = "number"
            /\ chain.walletHours.n < 24
        history == deployerWallet /\ chain.historyFound
        totalCreated == IF history THEN chain.totalCreated ELSE 0
        successful == IF history THEN chain.successful ELSE 0
        rugged == IF history THEN chain.rugged ELSE 0
        noSuccess == history /\ totalCreated > 0 /\ successful = 0
        hasSocialLinks == asset /\ chain.links
        noSocials == ~hasSocialLinks /\ mintAddress
        trustScore ==
            100 - (IF mintAuthorityEnabled THEN 50 ELSE 0)
                - (IF freezeAuthorityEnabled THEN 50 ELSE 0)
                - (IF top10HolderPercent > 30 THEN 30 ELSE 0)
                - (IF newWallet THEN 40 ELSE 0)
                - (IF noSuccess THEN 20 ELSE 0)
                - (IF noSocials THEN 10 ELSE 0)
        flag(raised, name) == IF raised THEN <<name>> ELSE <<>>
    IN  [deployerWallet |-> deployerWallet,
         trustScore |-> Clamp(0, trustScore, 100),
         riskLevel |-> RiskLevel(Clamp(0, trustScore, 100)),
         riskFlags |->
            flag(mintAuthorityEnabled, "Mint Authority Enabled")
                \o flag(freezeAuthorityEnabled, "Freeze Authority Enabled")
                \o flag(top10HolderPercent > 30, "High Concentration")
                \o flag(newWallet, "Dev wallet is new")
                \o flag(noSuccess, "0 successful past coins")
                \o flag(noSocials, "No social links in metadata"),
         mintAuthorityEnabled |-> mintAuthorityEnabled,
         freezeAuthorityEnabled |-> freezeAuthorityEnabled,
         top10HolderPercent |-> top10HolderPercent,
         totalCreated |-> totalCreated,
         rugged |-> rugged,
         successful |-> successful,
         hasSocialLinks |-> hasSocialLinks]

\* DevChecker.fetchLocalDevAnalysis (part_003): what the page computes by
\* itself when it is served from localhost.
fetchLocalDevAnalysis(chain) ==
    LET mintAuthorityEnabled == chain.assetFound /\ chain.mintAuthorityEnabled
        freezeAuthorityEnabled == chain.assetFound /\ chain.freezeAuthorityEnabled
        top10HolderPercent ==
            IF chain.top10HolderPercent.kind = "number"
                THEN chain.top10HolderPercent.n
                ELSE 0
        trustScore ==
            100 - (IF mintAuthorityEnabled THEN 50 ELSE 0)
                - (IF freezeAuthorityEnabled THEN 50 ELSE 0)
                - (IF top10HolderPercent > 30 THEN 30 ELSE 0)
        flag(raised, name) == IF raised THEN <<name>> ELSE <<>>
    IN  [deployerWallet |-> FALSE,
         trustScore |-> IF trustScore < 0 THEN 0 ELSE trustScore,
         riskLevel |-> RiskLevel(trustScore),
         riskFlags |->
            flag(mintAuthorityEnabled, "Mint Authority Enabled")
                \o flag(freezeAuthorityEnabled, "Freeze Authority Enabled")
                \o flag(top10HolderPercent > 30, "High Concentration"),
         mintAuthorityEnabled |-> mintAuthorityEnabled,
         freezeAuthorityEnabled |-> freezeAuthorityEnabled,
         top10HolderPercent |-> top10HolderPercent,
         totalCreated |-> 0,
         rugged |-> 0,
         successful |-> 0,
         hasSocialLinks |-> FALSE]

\* DevChecker.getBadgeFromScore (part_003)
getBadgeFromScore(score, riskLevel) ==
    IF riskLevel = "LOW" \/ score >= 70 THEN "TRUSTED DEV"
    ELSE IF riskLevel = "DANGER" \/ score < 40 THEN "HIGH RISK"
    ELSE "CAUTION"

\* DevChecker.getDefaultAnalysis (part_003)
getDefaultAnalysis(msg) ==
    [status |-> "error", badge |-> "UNKNOWN", badgeClass |-> "warning",
     message |-> msg, trustScore |-> 0, riskLevel |-> "UNKNOWN", riskFlags |-> <<>>]

\* The result DevChecker.analyzeDevWallet (part_003) builds from a response.
AnalysisOf(data) ==
    [status |-> "analyzed",
     badge |-> getBadgeFromScore(data.trustScore, data.riskLevel),
     badgeClass |->
        IF data.riskLevel = "LOW" THEN "positive"
        ELSE IF data.riskLevel = "DANGER" THEN "negative"
        ELSE "warning",
     message |-> data.trustScore,
     trustScore |-> data.trustScore,
     riskLevel |-> data.riskLevel,
     riskFlags |-> data.riskFlags]

\* DevChecker.calculateTrustScore (src/devChecker.js): the score shown in
\* the message, the badge and its class.  devStats is the creator's record
\* as fetchHeliusDevHistory returned it, all zero without a creator.
calculateTrustScore(pairData, devStats) ==
    LET liq == Or(pairData.liquidity.usd, Num(0))
        vol == Or(pairData.volume.h24, Num(0))
        liquidityHealth ==
            IF Gt(liq, Num(50000)) THEN 20
            ELSE IF Gt(liq, Num(10000)) THEN 10
            ELSE IF Lt(liq, Num(1000)) THEN -20
            ELSE 0
        volume ==
            IF Gt(vol, Num(100000)) THEN 20
            ELSE IF Gt(vol, Num(10000)) THEN 10
            ELSE 0
        age ==
            IF ~Truthy(pairData.hoursOld) THEN 0
            ELSE IF Gt(pairData.hoursOld, Num(72)) THEN 20
            ELSE IF Gt(pairData.hoursOld, Num(24)) THEN 10
            ELSE IF Lt(pairData.hoursOld, Num(1)) THEN -10
            ELSE 0
        socials == IF pairData.socials THEN 20 ELSE 0
        devHistory ==
            IF devStats.total > 0
                THEN 5 * devStats.successful - 10 * devStats.rugged
                ELSE 0
        score ==
            (IF pairData.present THEN liquidityHealth + volume + age + socials ELSE 0)
                + devHistory
        finalScore == Clamp(0, 40 + score, 100)
    IN  [badge |->
            IF finalScore >= 80 THEN "TRUSTED DEV"
            ELSE IF finalScore >= 50 THEN "AVERAGE"
            ELSE "HIGH RISK",
         badgeClass |->
            IF finalScore >= 80 THEN "positive"
            ELSE IF finalScore >= 50 THEN "warning"
            ELSE "negative",
         message |-> finalScore]

\* DevChecker.getDefaultAnalysis (src/devChecker.js)
VerifyManually(msg) == [badge |-> "VERIFY", badgeClass |-> "warning", message |-> msg]

NoDevStats == [total |-> 0, rugged |-> 0, successful |-> 0]

ChainFacts ==
    {[deployerFound |-> d, assetFound |-> a, mintAuthorityEnabled |-> m,
      freezeAuthorityEnabled |-> f, links |-> l, top10HolderPercent |-> t,
      walletHours |-> w, historyFound |-> h.found, totalCreated |-> h.total,
      rugged |-> h.rugged, successful |-> h.successful] :
        d \in BOOLEAN, a \in BOOLEAN, m \in BOOLEAN, f \in BOOLEAN, l \in BOOLEAN,
        t \in {Undefined, Num(0), Num(45)} \cup Near(30),
        w \in {Undefined} \cup Near(24),
        h \in {[found |-> FALSE, total |-> 0, rugged |-> 0, successful |-> 0],
               [found |-> TRUE, total |-> 0, rugged |-> 0, successful |-> 0],
               [found |-> TRUE, total |-> 3, rugged |-> 3, successful |-> 0],
               [found |-> TRUE, total |-> 3, rugged |-> 1, successful |-> 2]}}

NoPairData ==
    [present |-> FALSE, liquidity |-> [usd |-> Undefined], volume |-> [h24 |-> Undefined],
     hoursOld |-> Undefined, socials |-> FALSE]

PairFacts ==
    {NoPairData}
    \cup {[present |-> TRUE, liquidity |-> [usd |-> q], volume |-> [h24 |-> v],
           hoursOld |-> o, socials |-> x] :
            q \in {Undefined, Num(60000)} \cup Near(1000) \cup Near(10000) \cup Near(50000),
            v \in {Undefined, Num(20000)} \cup Near(100000),
            o \in {Undefined, Frac(1, 2), Num(1), Num(12), Num(25), Num(73)},
            x \in BOOLEAN}

DevStatsFacts ==
    {NoDevStats,
     [total |-> 2, rugged |-> 0, successful |-> 2],
     [total |-> 6, rugged |-> 6, successful |-> 0],
     [total |-> 9, rugged |-> 0, successful |-> 9]}

\* A token whose mint authority is enabled and whose top 10 holders own
\* 45%, with 60,000 of liquidity and a creator without earlier coins.
ExampleChain ==
    [deployerFound |-> TRUE, assetFound |-> TRUE, mintAuthorityEnabled |-> TRUE,
     freezeAuthorityEnabled |-> FALSE, links |-> TRUE, top10HolderPercent |-> Num(45),
     walletHours |-> Undefined, historyFound |-> TRUE, totalCreated |-> 0,
     rugged |-> 0, successful |-> 0]

ExamplePair ==
    [present |-> TRUE, liquidity |-> [usd |-> Num(60000)], volume |-> [h24 |-> Undefined],
     hoursOld |-> Undefined, socials |-> FALSE]

\* What a dev check can meet: a chain and a page served from anywhere for
\* the DevChecker that asks the handler, a pair and a creator's record for
\* the DevChecker that scores by itself, and the token above for both.
DevFacts ==
    {[chainId |-> c, localhost |-> l, chain |-> ch, pairData |-> NoPairData,
      creator |-> FALSE, devStats |-> NoDevStats] :
        c \in {"solana"}, l \in BOOLEAN, ch \in ChainFacts}
    \cup {[chainId |-> c, localhost |-> FALSE, chain |-> CHOOSE ch \in ChainFacts : TRUE,
           pairData |-> p, creator |-> k.total > 0, devStats |-> k] :
            c \in {"solana", "ethereum"}, p \in PairFacts, k \in DevStatsFacts}
    \cup {[chainId |-> "solana", localhost |-> l, chain |-> ExampleChain,
           pairData |-> ExamplePair, creator |-> FALSE, devStats |-> NoDevStats] :
            l \in BOOLEAN}

InitDevTrust ==
    /\ devFacts \in DevFacts
    /\ apiData = None
    /\ devAnalysis = None
    /\ tokenData = None
    /\ sentiment = None
    /\ risks = None
    /\ verdict = None
    /\ pc = "analyzeDevWallet"
    /\ NoInput
    /\ NotRendered
    /\ NoServices

\* The handler answers the page's POST /api/check-dev { mintAddress }, or
\* the request fails.
CheckDev ==
    /\ pc = "analyzeDevWallet"
    /\ devFacts.chainId = "solana"
    /\ ~devFacts.localhost
    /\ \/ apiData' = [ok |-> TRUE, body |-> checkDev(TRUE, FALSE, devFacts.chain)]
       \/ apiData' = [ok |-> FALSE]
    /\ pc' = "fetchComprehensiveDevAnalysis"
    /\ UNCHANGED <<tokenData, sentiment, risks, verdict, inputVars, momentum, predictions,
                   devFacts, devAnalysis, serviceVars>>

\* DevChecker.analyzeDevWallet (part_003), once the response is in.
AnalyzeDevWalletFromApi ==
    /\ pc = "fetchComprehensiveDevAnalysis"
    /\ devAnalysis' =
            IF apiData.ok THEN AnalysisOf(apiData.body)
            ELSE getDefaultAnalysis("API Error - Try Again")
    /\ pc' = "done"
    /\ UNCHANGED <<tokenData, sentiment, risks, verdict, inputVars, momentum, predictions,
                   devFacts, apiData, serviceVars>>

\* DevChecker.analyzeDevWallet (part_003) on a page served from localhost,
\* and on a chain other than Solana.
AnalyzeDevWalletLocally ==
    /\ pc = "analyzeDevWallet"
    /\ devFacts.chainId # "solana" \/ devFacts.localhost
    /\ devAnalysis' =
            IF devFacts.chainId # "solana"
                THEN getDefaultAnalysis("Only Solana Supported")
                ELSE AnalysisOf(fetchLocalDevAnalysis(devFacts.chain))
    /\ pc' = "done"
    /\ UNCHANGED <<tokenData, sentiment, risks, verdict, inputVars, momentum, predictions,
                   devFacts, apiData, serviceVars>>

\* DevChecker.analyzeDevWallet (src/devChecker.js): the token-metadata
\* lookup gives the creator or throws.
AnalyzeDevWallet ==
    /\ pc = "analyzeDevWallet"
    /\ \E lookup \in {"ok", "throws"} :
        devAnalysis' =
            IF devFacts.chainId # "solana" THEN VerifyManually("Only Solana Supported")
            ELSE IF lookup = "ok"
                THEN [status |-> "analyzed"]
                        @@ calculateTrustScore(devFacts.pairData, devFacts.devStats)
            ELSE IF devFacts.pairData.present
                THEN [status |-> "partial"]
                        @@ calculateTrustScore(devFacts.pairData, NoDevStats)
            ELSE VerifyManually("API Error")
    /\ pc' = "done"
    /\ UNCHANGED <<tokenData, sentiment, risks, verdict, inputVars, momentum, predictions,
                   devFacts, apiData, serviceVars>>

NextDevTrust ==
    CheckDev \/ AnalyzeDevWalletFromApi \/ AnalyzeDevWalletLocally \/ AnalyzeDevWallet

SpecDevTrust == InitDevTrust /\ [][NextDevTrust]_vars

-----------------------------------------------------------------------------
(***************************************************************************)
(* The dev cache of DevChecker (src/devChecker.js): results are kept in    *)
(* localStorage by token address for cacheTTL milliseconds.                *)
(* analyzeDevWallet is asynchronous: between its reading the cache and its *)
(* writing the result the clock moves and other calls run.                 *)
(***************************************************************************)

\* this.cacheTTL
cacheTTL == 10 * 60 * 1000

\* The clock is followed over this many lifetimes of an entry.
MaxClock == 1

\* The moments the clock is read at: the ends of the lifetimes and a
\* millisecond after each.
Instants == {k * cacheTTL + j : k \in 0..MaxClock, j \in {0, 1}}

Addresses == {"mintA", "mintB"}

\* An operation returns a value or throws.
Returned(v) == [threw |-> FALSE, value |-> v]

Thrown == [threw |-> TRUE]

\* try { r } catch { handler }
Catch(r, handler) == IF r.threw THEN handler ELSE r

\* What an upstream can do with a request: the network fails, the status
\* is not OK, the body does not parse, or the body arrives.
Failures == {[outcome |-> "throws"], [outcome |-> "notOk"], [outcome |-> "malformed"]}

\* The token-metadata lookup: a body names the creator or does not.
MetaResponses == Failures \cup {[outcome |-> "ok", creator |-> c] : c \in BOOLEAN}

\* /api/check-dev { creatorAddress } and its answer.
HistoryResponses ==
    Failures \cup {[outcome |-> "ok", stats |-> [total |-> 2, rugged |-> 0, successful |-> 2]]}

\* Pump.fun's list of the creator's coins, counted, or a body that is not a
\* list.
PumpFunResponses ==
    Failures
    \cup {[outcome |-> "notArray"],
          [outcome |-> "ok", stats |-> [total |-> 6, rugged |-> 6, successful |-> 0]]}

\* DevChecker.fetchPumpFunFallback
fetchPumpFunFallback(fallback) ==
    Catch(IF fallback.outcome \in {"throws", "malformed"} THEN Thrown
          ELSE IF fallback.outcome \in {"notOk", "notArray"} THEN Returned(NoDevStats)
          ELSE Returned(fallback.stats),
          Returned(NoDevStats))

\* DevChecker.fetchHeliusDevHistory
fetchHeliusDevHistory(history, fallback) ==
    Catch(IF history.outcome \in {"throws", "malformed"} THEN Thrown
          ELSE IF history.outcome = "notOk" THEN fetchPumpFunFallback(fallback)
          ELSE Returned(history.stats),
          fetchPumpFunFallback(fallback))

\* DevChecker.calculateTrustScore(creatorAddress, pairData), with the
\* creator's history fetched on the way.
calculateTrustScoreOf(creator, pairData, history, fallback) ==
    LET fetched ==
            IF creator
                THEN Catch(fetchHeliusDevHistory(history, fallback), Returned(NoDevStats))
                ELSE Returned(NoDevStats)
    IN  Returned(calculateTrustScore(pairData, fetched.value)
                    @@ [otherTokens |-> fetched.value.total,
                        rugCount |-> fetched.value.rugged])

\* DevChecker.analyzeDevWallet after a cache miss: what it returns and
\* whether it handed the result to setCachedDevData.
analyzeDevWallet(pairData, meta, history, fallback) ==
    LET creator == meta.outcome = "ok" /\ meta.creator
        analysis == calculateTrustScoreOf(creator, pairData, history, fallback)
        attempt ==
            IF meta.outcome \in {"throws", "malformed"} \/ analysis.threw THEN Thrown
            ELSE Returned([status |-> "analyzed", deployerWallet |-> creator]
                            @@ analysis.value)
        partial == calculateTrustScoreOf(FALSE, pairData, history, fallback)
        rescue ==
            IF pairData.present
                THEN IF partial.threw THEN Thrown
                     ELSE Returned([status |-> "partial", deployerWallet |-> FALSE]
                                    @@ partial.value)
                ELSE Returned(VerifyManually("API Error"))
    IN  Catch(attempt, rescue) @@ [cached |-> ~attempt.threw]

\* What the dev-history endpoint and its fallback answer while the cache is
\* followed: the history arrives or it does not.
CacheHistory == {h \in HistoryResponses : h.outcome \in {"ok", "notOk"}}

CacheFallback == {f \in PumpFunResponses : f.outcome = "notOk"}

\* The pairs a dev check is asked with.
CachePairs == {NoPairData, ExamplePair}

\* What callers hand to setCachedDevData themselves.
CacheData == {[status |-> "analyzed", deployerWallet |-> FALSE]
                @@ calculateTrustScore(NoPairData, NoDevStats)}

\* An expiry that lets an entry live twice as long.
Expired_AfterTwoLifetimes(entry) == now - entry.timestamp > 2 * cacheTTL

\* Date.now() - entry.timestamp > this.cacheTTL
Expired(entry) == now - entry.timestamp > cacheTTL

\* DevChecker.getCachedDevData: what it returns.
getCachedDevData(address) ==
    IF cache[address] = None \/ Expired(cache[address]) THEN None
    ELSE cache[address].data

\* DevChecker.getCachedDevData: what it leaves in the store.
CacheAfterGet(address) ==
    IF cache[address] # None /\ Expired(cache[address])
        THEN [cache EXCEPT ![address] = None]
        ELSE cache

\* DevChecker.setCachedDevData: what it leaves in the store; a write the
\* store refuses is dropped.
CacheAfterSet(store, address, data, accepted) ==
    IF accepted
        THEN [store EXCEPT ![address] = [data |-> data, timestamp |-> now]]
        ELSE store

\* A call of getCachedDevData: the address, the age of the entry it found
\* and what it returned.
Reading(address) ==
    [address |-> address,
     found |-> cache[address] # None,
     age |-> IF cache[address] # None THEN now - cache[address].timestamp ELSE 0,
     data |-> getCachedDevData(address)]

Idle == [phase |-> "idle"]

InitDevCache ==
    /\ cache = [a \in Addresses |-> None]
    /\ now = 0
    /\ call = Idle
    /\ read = None
    /\ tokenData = None
    /\ sentiment = None
    /\ risks = None
    /\ verdict = None
    /\ pc = "devCache"
    /\ NoInput
    /\ NotRendered
    /\ NoDevCheck
    /\ NoAfterCache

\* Time passes.
Tick ==
    /\ \E t \in Instants : t > now /\ now' = t
    /\ UNCHANGED <<tokenData, sentiment, risks, verdict, pc, inputVars, momentum, predictions,
                   afterCacheVars, devVars, cache, call, read>>

\* getCachedDevData(address), called by itself
GetCachedDevData ==
    /\ \E address \in Addresses :
        /\ read' = Reading(address)
        /\ cache' = CacheAfterGet(address)
    /\ UNCHANGED <<tokenData, sentiment, risks, verdict, pc, inputVars, momentum, predictions,
                   afterCacheVars, devVars, now, call>>

\* setCachedDevData(address, data), called by itself
SetCachedDevData ==
    /\ \E address \in Addresses, data \in CacheData, accepted \in BOOLEAN :
        cache' = CacheAfterSet(cache, address, data, accepted)
    /\ UNCHANGED <<tokenData, sentiment, risks, verdict, pc, inputVars, momentum, predictions,
                   afterCacheVars, devVars, now, call, read>>

\* analyzeDevWallet(tokenAddress, chainId, pairData) up to its first
\* await: it returns at once for another chain and for a cached result,
\* and otherwise sends the token-metadata request.
BeginAnalyzeDevWallet ==
    /\ call.phase # "fetch"
    /\ \E tokenAddress \in Addresses, chainId \in {"solana", "ethereum"},
          pairData \in CachePairs :
        IF chainId # "solana"
            THEN /\ call' = [phase |-> "done", tokenAddress |-> tokenAddress,
                             chainId |-> chainId, pairData |-> pairData, meta |-> "none",
                             threw |-> FALSE,
                             result |-> VerifyManually("Only Solana Supported")]
                 /\ UNCHANGED <<cache, read>>
            ELSE /\ read' = Reading(tokenAddress)
                 /\ cache' = CacheAfterGet(tokenAddress)
                 /\ call' =
                        IF getCachedDevData(tokenAddress) # None
                            THEN [phase |-> "done", tokenAddress |-> tokenAddress,
                                  chainId |-> chainId, pairData |-> pairData,
                                  meta |-> "cached", threw |-> FALSE,
                                  result |-> getCachedDevData(tokenAddress)]
                            ELSE [phase |-> "fetch", tokenAddress |-> tokenAddress,
                                  chainId |-> chainId, pairData |-> pairData]
    /\ UNCHANGED <<tokenData, sentiment, risks, verdict, pc, inputVars, momentum, predictions,
                   afterCacheVars, devVars, now>>

\* analyzeDevWallet from the answer of the token-metadata request to its
\* return.
CompleteAnalyzeDevWallet ==
    /\ call.phase = "fetch"
    /\ \E meta \in MetaResponses, history \in CacheHistory,
          fallback \in CacheFallback, accepted \in BOOLEAN :
        LET outcome == analyzeDevWallet(call.pairData, meta, history, fallback)
        IN  /\ call' = [phase |-> "done", tokenAddress |-> call.tokenAddress,
                        chainId |-> call.chainId, pairData |-> call.pairData,
                        meta |-> meta.outcome, threw |-> outcome.threw,
                        result |-> IF outcome.threw THEN None ELSE outcome.value]
            /\ cache' =
                    IF outcome.cached
                        THEN CacheAfterSet(cache, call.tokenAddress, outcome.value, accepted)
                        ELSE cache
    /\ UNCHANGED <<tokenData, sentiment, risks, verdict, pc, inputVars, momentum, predictions,
                   afterCacheVars, devVars, now, read>>

NextDevCache ==
    \/ Tick
    \/ GetCachedDevData
    \/ SetCachedDevData
    \/ BeginAnalyzeDevWallet
    \/ CompleteAnalyzeDevWallet

SpecDevCache == InitDevCache /\ [][NextDevCache]_vars

\* One dev check with an empty cache, against every behaviour of the three
\* upstreams.
LookupPairs ==
    {p \in PairFacts : p.volume.h24 = Undefined /\ p.hoursOld = Undefined /\ ~p.socials}

LookupFacts ==
    {[chainId |-> "solana", tokenAddress |-> "mintA", pairData |-> p, meta |-> m,
      history |-> h, fallback |-> f] :
        p \in LookupPairs, m \in MetaResponses, h \in HistoryResponses,
        f \in PumpFunResponses}

InitDevLookups ==
    /\ devFacts \in LookupFacts
    /\ apiData = None
    /\ devAnalysis = None
    /\ cache = [a \in Addresses |-> None]
    /\ now = 0
    /\ call = Idle
    /\ read = None
    /\ tokenData = None
    /\ sentiment = None
    /\ risks = None
    /\ verdict = None
    /\ pc = "analyzeDevWallet"
    /\ NoInput
    /\ NotRendered
    /\ NoAfterCache

\* analyzeDevWallet(tokenAddress, 'solana', pairData) from its call to its
\* return, nothing else running meanwhile.
AnalyzeDevWalletUpstream ==
    /\ pc = "analyzeDevWallet"
    /\ getCachedDevData(devFacts.tokenAddress) = None
    /\ \E accepted \in BOOLEAN :
        LET outcome ==
                analyzeDevWallet(devFacts.pairData, devFacts.meta, devFacts.history,
                                 devFacts.fallback)
        IN  /\ devAnalysis' = outcome
            /\ cache' =
                    IF outcome.cached
                        THEN CacheAfterSet(cache, devFacts.tokenAddress, outcome.value,
                                           accepted)
                        ELSE cache
    /\ read' = Reading(devFacts.tokenAddress)
    /\ pc' = "done"
    /\ UNCHANGED <<tokenData, sentiment, risks, verdict, inputVars, momentum, predictions,
                   afterCacheVars, devFacts, apiData, now, call>>

NextDevLookups == AnalyzeDevWalletUpstream

SpecDevLookups == InitDevLookups /\ [][NextDevLookups]_vars

-----------------------------------------------------------------------------
(***************************************************************************)
(* The wallet analysis: the handler of /api/wallet-analysis                *)
(* (src/api/wallet-analysis.js) asked for type=full, and                   *)
(* MoralisAPI.getWalletSummary (src/config.js), which asks it through a    *)
(* MoralisAPI whose cache is empty.                                        *)
(***************************************************************************)

\* The outcomes Promise.allSettled collects.
Fulfilled(v) == [status |-> "fulfilled", value |-> v]

Rejected == [status |-> "rejected"]

\* portfolio.status === 'fulfilled' ? portfolio.value : null
Settled(lookup) == IF lookup.status = "fulfilled" THEN lookup.value ELSE Null

\* calculateWalletRisk(data)
calculateWalletRisk(data) ==
    LET hasAge == data.transactions # Null /\ data.transactions.walletAge # Null
        age == data.transactions.walletAge
        burner == hasAge /\ age.isBurner
        new == hasAge /\ ~age.isBurner /\ Lt(age.days, Num(7))
        established == hasAge /\ ~age.isBurner /\ ~new /\ Gt(age.days, Num(365))
        netWorth == IF data.portfolio # Null THEN data.portfolio.totalNetWorthUSD ELSE 0
        txCount == IF data.transactions # Null THEN data.transactions.totalCount ELSE 0
        tokenCount == IF data.tokens # Null THEN data.tokens.count ELSE 0
        trustScore ==
            50 + (IF burner THEN -30 ELSE IF new THEN -15 ELSE IF established THEN 20 ELSE 0)
               + (IF txCount > 100 THEN 10 ELSE IF txCount < 10 THEN -10 ELSE 0)
               + (IF tokenCount > 20 THEN 5 ELSE IF tokenCount = 1 THEN -10 ELSE 0)
        flag(raised, name) == IF raised THEN <<name>> ELSE <<>>
    IN  [isBurner |-> burner,
         isWhale |-> netWorth >= 100000,
         isActive |-> txCount > 100,
         trustScore |-> Clamp(0, trustScore, 100),
         flags |->
            flag(burner, "Burner wallet")
                \o flag(new, "New wallet")
                \o flag(established, "Established wallet")
                \o flag(netWorth >= 100000, "Whale wallet")
                \o flag(netWorth < 100000 /\ netWorth >= 10000, "Substantial holdings")
                \o flag(txCount > 100, "High activity")
                \o flag(txCount < 10, "Low activity")
                \o flag(tokenCount > 20, "Diversified portfolio")
                \o flag(tokenCount = 1, "Single token holder")]

\* getFullWalletAnalysis with Promise.all in place of Promise.allSettled:
\* one rejected lookup rejects the whole.
getFullWalletAnalysis_All(facts) ==
    IF \E k \in DOMAIN facts : facts[k].status = "rejected" THEN Thrown
    ELSE LET result ==
                [portfolio |-> facts.portfolio.value, tokens |-> facts.tokens.value,
                 transactions |-> facts.transactions.value, balance |-> facts.balance.value]
         IN  Returned(result @@ [riskIndicators |-> calculateWalletRisk(result)])

\* getFullWalletAnalysis(address, headers)
getFullWalletAnalysis(facts) ==
    LET result ==
            [portfolio |-> Settled(facts.portfolio), tokens |-> Settled(facts.tokens),
             transactions |-> Settled(facts.transactions), balance |-> Settled(facts.balance)]
    IN  Returned(result @@ [riskIndicators |-> calculateWalletRisk(result)])

\* handler(req, res) for a GET with a valid address and type=full: the
\* status and the body of its response.
WalletHandler(facts, apiKey) ==
    LET result == getFullWalletAnalysis(facts)
    IN  IF ~apiKey
            THEN [status |-> 500, success |-> FALSE, error |-> "API configuration error"]
        ELSE IF result.threw
            THEN [status |-> 500, success |-> FALSE, error |-> "Failed to fetch wallet data"]
        ELSE [status |-> 200, success |-> TRUE, data |-> result.value]

\* trustScore: data.riskIndicators?.trustScore || 50
ReportedTrustScore(trustScore) == Or(Num(trustScore), Num(50)).n

\* MoralisAPI.getWalletSummary(address), given the response that
\* MoralisAPI.request received, or None when the request did not get one.
getWalletSummary(response) ==
    IF response = None \/ response.status # 200 \/ ~response.success
        THEN [error |-> TRUE, netWorthUSD |-> 0, tokenCount |-> 0, trustScore |-> 0]
        ELSE LET data == response.data
             IN  [netWorthUSD |->
                    IF data.portfolio # Null THEN data.portfolio.totalNetWorthUSD ELSE 0,
                  tokenCount |-> IF data.tokens # Null THEN data.tokens.count ELSE 0,
                  transactionCount |->
                    IF data.transactions # Null THEN data.transactions.totalCount ELSE 0,
                  walletAge |->
                    IF data.transactions # Null THEN data.transactions.walletAge ELSE Null,
                  isWhale |-> data.riskIndicators.isWhale,
                  isBurner |-> data.riskIndicators.isBurner,
                  trustScore |-> ReportedTrustScore(data.riskIndicators.trustScore),
                  flags |-> data.riskIndicators.flags]

\* walletAge as getWalletTransactions computes it from the oldest
\* transaction: none, or the whole days since; the date that does not
\* parse gives NaN.
WalletAges ==
    {Null, [isBurner |-> FALSE, days |-> NaN]}
    \cup {[isBurner |-> d < 1, days |-> Num(d)] : d \in {0, 1, 6, 7, 365, 366}}

WalletLookups ==
    [portfolio : {Rejected} \cup {Fulfilled([totalNetWorthUSD |-> w]) :
                                    w \in {0, 9999, 10000, 99999, 100000}},
     tokens : {Rejected} \cup {Fulfilled([count |-> c]) : c \in {0, 1, 2, 20, 21}},
     transactions :
        {Rejected, Fulfilled([totalCount |-> 0, walletAge |-> Null])}
        \cup {Fulfilled([totalCount |-> c, walletAge |-> a]) :
                c \in {9, 10, 100, 101}, a \in WalletAges},
     balance : {Rejected, Fulfilled([lamports |-> 5])}]

InitWallet ==
    /\ walletFacts \in WalletLookups
    /\ walletResponse = None
    /\ walletSummary = None
    /\ tokenData = None
    /\ sentiment = None
    /\ risks = None
    /\ verdict = None
    /\ pc = "getFullAnalysis"
    /\ NoInput
    /\ NotRendered
    /\ NoDevCheck
    /\ NoDevCache
    /\ NoAfterWallet

\* MoralisAPI.request(address, 'full') reaches the handler, which answers.
WalletAnalysis ==
    /\ pc = "getFullAnalysis"
    /\ \E apiKey \in BOOLEAN : walletResponse' = WalletHandler(walletFacts, apiKey)
    /\ pc' = "getWalletSummary"
    /\ UNCHANGED <<tokenData, sentiment, risks, verdict, inputVars, momentum, predictions,
                   devVars, cacheVars, walletFacts, walletSummary, afterWalletVars>>

\* MoralisAPI.request(address, 'full') does not reach the handler: fetch
\* rejects.
WalletUnreachable ==
    /\ pc = "getFullAnalysis"
    /\ pc' = "getWalletSummary"
    /\ UNCHANGED <<tokenData, sentiment, risks, verdict, inputVars, momentum, predictions,
                   devVars, cacheVars, walletVars, afterWalletVars>>

\* MoralisAPI.getWalletSummary returns.
GetWalletSummary ==
    /\ pc = "getWalletSummary"
    /\ walletSummary' = getWalletSummary(walletResponse)
    /\ pc' = "done"
    /\ UNCHANGED <<tokenData, sentiment, risks, verdict, inputVars, momentum, predictions,
                   devVars, cacheVars, walletFacts, walletResponse, afterWalletVars>>

NextWallet == WalletAnalysis \/ WalletUnreachable \/ GetWalletSummary

SpecWallet == InitWallet /\ [][NextWallet]_vars

-----------------------------------------------------------------------------
(***************************************************************************)
(* DexscreenerAPI.getTokenDirect (src/api.js): four endpoints are asked    *)
(* one after the other, each request awaited before the next is sent.      *)
(***************************************************************************)

\* The decimal digits of a natural number.
RECURSIVE IntegerDigits(_)
IntegerDigits(n) ==
    IF n < 10 THEN <<Digits[n + 1]>>
    ELSE Append(IntegerDigits(n \div 10), Digits[(n % 10) + 1])

\* The digits after the point of r/d, for a fraction that ends.
RECURSIVE FractionDigits(_, _)
FractionDigits(r, d) ==
    IF r = 0 THEN <<>>
    ELSE <<Digits[((10 * r) \div d) + 1]>> \o FractionDigits((10 * r) % d, d)

\* Number.prototype.toString() of a number that is 0 or at least 0.000001
\* and whose decimal expansion ends: the digits, without an exponent.
NumberToString(x) ==
    LET r == Reduce(x)
        rest == r.n % r.d
    IN  IntegerDigits(r.n \div r.d)
            \o (IF rest = 0 THEN <<>> ELSE <<".">> \o FractionDigits(rest, r.d))

\* One attempt of the first two strategies without its try and catch.
ArrayStrategy_Uncaught(response) ==
    IF response.outcome \in {"throws", "malformed"} THEN Thrown
    ELSE IF response.outcome = "ok" /\ response.body.isArray
                /\ Len(response.body.items) > 0
        THEN Returned([pairs |-> response.body.items])
    ELSE Returned(None)

\* Strategies 1 and 2, the tokens and the token-pairs endpoint: the result
\* to return, or None to go on with the next strategy.
ArrayStrategy(response) ==
    Catch(IF response.outcome \in {"throws", "malformed"} THEN Thrown
          ELSE IF response.outcome = "ok" /\ response.body.isArray
                    /\ Len(response.body.items) > 0
            THEN Returned([pairs |-> response.body.items])
          ELSE Returned(None),
          Returned(None))

\* The search endpoint
SearchStrategy(response) ==
    Catch(IF response.outcome \in {"throws", "malformed"} THEN Thrown
          ELSE IF response.outcome = "ok" /\ response.body.hasPairs
                    /\ Len(response.body.pairs) > 0
            THEN Returned([pairs |-> response.body.pairs])
          ELSE Returned(None),
          Returned(None))

\* Strategy 4, the Pump.fun endpoint, with the coin converted to a pair.
PumpFunStrategy(response) ==
    Catch(IF response.outcome \in {"throws", "malformed"} THEN Thrown
          ELSE IF response.outcome = "ok" /\ response.body.mint
            THEN LET cap == response.body.usd_market_cap
                 IN  Returned(
                        [pairs |->
                            <<[chainId |-> "solana",
                               pairAddress |-> "pumpfun",
                               priceUsd |->
                                    IF Truthy(cap)
                                        THEN Str(NumberToString(Div(cap, Num(1000000000))))
                                        ELSE Str(<<"0">>),
                               liquidity |-> [usd |-> Or(cap, Num(0))],
                               volume |-> [h24 |-> Num(0)],
                               marketCap |-> Or(cap, Num(0)),
                               fdv |-> Or(cap, Num(0))]>>,
                         source |-> "pumpfun"])
          ELSE Returned(None),
          Returned(None))

\* The endpoints in the order of the strategies.
DirectOrder == <<"tokens", "tokenPairs", "search", "pumpfun">>

PairFrom(source) == [chainId |-> "solana", pairAddress |-> source]

ArrayResponses(source) ==
    Failures
    \cup {[outcome |-> "ok", body |-> [isArray |-> FALSE, items |-> <<>>]],
          [outcome |-> "ok", body |-> [isArray |-> TRUE, items |-> <<>>]],
          [outcome |-> "ok", body |-> [isArray |-> TRUE, items |-> <<PairFrom(source)>>]]}

SearchResponses ==
    Failures
    \cup {[outcome |-> "ok", body |-> [hasPairs |-> FALSE, pairs |-> <<>>]],
          [outcome |-> "ok", body |-> [hasPairs |-> TRUE, pairs |-> <<>>]],
          [outcome |-> "ok", body |-> [hasPairs |-> TRUE, pairs |-> <<PairFrom("search")>>]]}

CoinResponses ==
    Failures
    \cup {[outcome |-> "ok", body |-> [mint |-> FALSE, usd_market_cap |-> Undefined]],
          [outcome |-> "ok", body |-> [mint |-> TRUE, usd_market_cap |-> Undefined]],
          [outcome |-> "ok", body |-> [mint |-> TRUE, usd_market_cap |-> Num(5000000)]]}

InitDirect ==
    /\ sources \in [tokens : ArrayResponses("tokens"),
                    tokenPairs : ArrayResponses("tokenPairs"),
                    search : SearchResponses,
                    pumpfun : CoinResponses]
    /\ contacted = <<>>
    /\ direct = None
    /\ tokenData = None
    /\ sentiment = None
    /\ risks = None
    /\ verdict = None
    /\ pc = "tokens"
    /\ NoInput
    /\ NotRendered
    /\ NoDevCheck
    /\ NoDevCache
    /\ NoWallet
    /\ NoAfterDirect

\* One strategy of getTokenDirect: the request is sent and answered; the
\* function returns what the strategy found, or goes on.
Strategy(source, attempt, next) ==
    /\ pc = source
    /\ contacted' = Append(contacted, source)
    /\ IF attempt.threw
            THEN direct' = Thrown /\ pc' = "done"
        ELSE IF attempt.value # None
            THEN direct' = Returned(attempt.value) /\ pc' = "done"
        ELSE IF next = "done"
            THEN direct' = Returned([pairs |-> <<>>]) /\ pc' = "done"
        ELSE direct' = direct /\ pc' = next
    /\ UNCHANGED <<tokenData, sentiment, risks, verdict, inputVars, momentum, predictions,
                   devVars, cacheVars, walletVars, sources, afterDirectVars>>

TryTokensEndpoint == Strategy("tokens", ArrayStrategy(sources.tokens), "tokenPairs")

TryTokenPairsEndpoint == Strategy("tokenPairs", ArrayStrategy(sources.tokenPairs), "search")

TrySearchEndpoint == Strategy("search", SearchStrategy(sources.search), "pumpfun")

TryPumpFunEndpoint == Strategy("pumpfun", PumpFunStrategy(sources.pumpfun), "done")

NextDirect ==
    \/ TryTokensEndpoint
    \/ TryTokenPairsEndpoint
    \/ TrySearchEndpoint
    \/ TryPumpFunEndpoint

SpecDirect == InitDirect /\ [][NextDirect]_vars

-----------------------------------------------------------------------------
(***************************************************************************)
(* formatPrice (src/utils.js), which renderTokenData calls with            *)
(* parseFloat(pair.priceUsd).  The numbers drawn are decimal fractions of  *)
(* at least 0.000001, and 0.                                               *)
(***************************************************************************)

\* a >= b: false as soon as an operand is NaN.
Ge(a, b) == Le(b, a)

\* x * 10^k for a number x, in lowest terms.
Scale10(x, k) ==
    LET g == Gcd(Pow10(k), x.d)
    IN  Reduce(Frac(x.n * (Pow10(k) \div g), x.d \div g))

\* String(x) for an integer, an Infinity or NaN.
StringOf(x) ==
    CASE x.kind = "NaN" -> <<"N", "a", "N">>
      [] x.kind = "Infinity" ->
            (IF x.n < 0 THEN <<"-">> ELSE <<>>)
                \o <<"I", "n", "f", "i", "n", "i", "t", "y">>
      [] OTHER -> (IF x.n < 0 THEN <<"-">> ELSE <<>>)
                    \o NumberToString(Abs(x))

\* n written with at least digits + 1 digits.
PadDigits(n, digits) ==
    LET s == IntegerDigits(n)
    IN  IF Len(s) > digits THEN s ELSE Repeat("0", digits + 1 - Len(s)) \o s

\* x.toFixed(digits): the nearest number with that many decimals, the
\* larger of two that are as near.
ToFixed(x, digits) ==
    IF x.kind # "number" THEN StringOf(x)
    ELSE LET m == Scale10(Abs(x), digits)
             n == (2 * m.n + m.d) \div (2 * m.d)
             s == PadDigits(n, digits)
             whole == SubSeq(s, 1, Len(s) - digits)
         IN  (IF x.n < 0 THEN <<"-">> ELSE <<>>)
                \o whole
                \o (IF digits = 0 THEN <<>>
                    ELSE <<".">> \o SubSeq(s, Len(s) - digits + 1, Len(s)))

\* The least k with x * 10^k >= 1, for 0 < x < 1.
RECURSIVE DecimalsToOne(_, _)
DecimalsToOne(x, k) ==
    IF Pow10(k) >= (x.d + x.n - 1) \div x.n THEN k ELSE DecimalsToOne(x, k + 1)

\* Math.floor(Math.log10(price)) for a price below 1.
FloorLog10(value) ==
    LET x == Reduce(ToNumber(value))
    IN  CASE x.kind = "NaN" -> NaN
          [] x.kind = "Infinity" -> IF x.n > 0 THEN PosInfinity ELSE NaN
          [] x.n < 0 -> NaN
          [] x.n = 0 -> NegInfinity
          [] OTHER -> Num(-DecimalsToOne(x, 0))

\* Math.pow(10, e) for an integer or infinite exponent that is not
\* negative.
TenToThe(e) ==
    CASE e.kind = "NaN" -> NaN
      [] e.kind = "Infinity" -> IF e.n > 0 THEN PosInfinity ELSE Num(0)
      [] OTHER -> Num(Pow10(e.n))

\* price * Math.pow(10, zeros + 4)
Significand(value, zeros) ==
    IF value.kind = "number" /\ zeros.kind = "number"
        THEN Scale10(value, zeros.n + 4)
        ELSE Mul(value, TenToThe(Add(zeros, Num(4))))

\* formatPrice(price)
formatPrice(value) ==
    IF value.kind \in {"null", "undefined"} THEN Str(<<"N", "/", "A">>)
    ELSE IF Ge(value, Num(1)) THEN Str(<<"$">> \o ToFixed(value, 2))
    ELSE IF Ge(value, Frac(1, 100)) THEN Str(<<"$">> \o ToFixed(value, 4))
    ELSE IF Ge(value, Frac(1, 10000)) THEN Str(<<"$">> \o ToFixed(value, 6))
    ELSE LET zeros == Add(Mul(FloorLog10(value), Num(-1)), Num(-1))
         IN  IF Ge(zeros, Num(4))
                THEN Str(<<"$", "0", ".", "0", "{">> \o StringOf(zeros) \o <<"}">>
                            \o ToFixed(Significand(value, zeros), 0))
                ELSE Str(<<"$">> \o ToFixed(value, 8))

\* The price strings of the pairs the Pump.fun strategy makes.
PumpFunPrices ==
    {PumpFunStrategy(r).value.pairs[1].priceUsd :
        r \in {c \in CoinResponses : c.outcome = "ok" /\ c.body.mint}}

\* Decimal fractions from 0.000001 to 9999.
DecimalPrices ==
    {x \in {Reduce(Frac(n, Pow10(k))) : n \in {5, 12, 25, 123, 1234, 9999}, k \in 0..8} :
        (x.d + 999999) \div 1000000 <= x.n}

\* What formatPrice is called with: nothing, the prices parsed from the
\* strings of the pairs, and the decimal fractions.
PriceArguments ==
    {Undefined, Null}
        \cup {ParseFloat(p) : p \in PriceUsdValues \cup PumpFunPrices}
        \cup DecimalPrices

InitPrice ==
    /\ price \in PriceArguments
    /\ formatted = None
    /\ tokenData = None
    /\ sentiment = None
    /\ risks = None
    /\ verdict = None
    /\ pc = "formatPrice"
    /\ NoInput
    /\ NotRendered
    /\ NoDevCheck
    /\ NoDevCache
    /\ NoWallet
    /\ NoDirect
    /\ NoFresh

FormatPrice ==
    /\ pc = "formatPrice"
    /\ formatted' = formatPrice(price)
    /\ pc' = "done"
    /\ UNCHANGED <<tokenData, sentiment, risks, verdict, inputVars, momentum, predictions,
                   devVars, cacheVars, walletVars, directVars, price, freshVars>>

NextPrice == FormatPrice

SpecPrice == InitPrice /\ [][NextPrice]_vars

-----------------------------------------------------------------------------
(***************************************************************************)
(* FreshPairsManager (src/unnamed/part_009), the one instance app.js       *)
(* makes.  fetches is the history of the calls of fetchFreshPairs: a call  *)
(* is "skipped" when it returned at the guard, "primary" while its request *)
(* to token-boosts is pending, "fallback" while its request to             *)
(* token-profiles is pending, and "succeeded", "recovered" or "failed"     *)
(* once it is over.  refreshInterval is the sequence of the intervals      *)
(* started, the last of which is the one the field holds.  Of a pair the   *)
(* address and the symbol are kept.  stopAutoRefresh has no caller.        *)
(***************************************************************************)

\* The calls of fetchFreshPairs that are followed.
MaxCalls == 5

\* The two calls of freshPairs.init in init() of app.js.
InitSites == <<"app.js:62", "app.js:99">>

\* if (this.isLoading) return;  with the guard left out.
Busy_Never(loading) == FALSE

\* if (this.isLoading) return;
Busy(loading) == loading

MintA == Str(<<"m", "i", "n", "t", "A">>)

Described == Str(<<"d", "o", "g">>)

Item(chainId, tokenAddress, description) ==
    [chainId |-> chainId, tokenAddress |-> tokenAddress, description |-> description]

ItemList(items) == [kind |-> "array", items |-> items]

\* The bodies the two endpoints answer with: null, or a list of items.
FeedBodies ==
    {Null,
     ItemList(<<>>),
     ItemList(<<Item("solana", MintA, Described)>>),
     ItemList(<<Item("ethereum", MintA, Described), Item("solana", MintA, Undefined)>>),
     ItemList(<<Item("solana", Undefined, Described)>>),
     ItemList(<<Item("solana", Undefined, Undefined)>>)}

\* What a request can come to: fetch rejects, the status is not OK, json()
\* rejects, or a body arrives.
FeedResponses ==
    {[outcome |-> o, body |-> Null] : o \in {"rejected", "notOk", "badJson"}}
        \cup {[outcome |-> "ok", body |-> b] : b \in FeedBodies}

\* (data || []).filter(item => item.chainId === 'solana').slice(0, 15)
SolanaItems(data) ==
    LET list == IF data.kind = "null" THEN <<>> ELSE data.items
        kept == SelectSeq(list, LAMBDA item : item.chainId = "solana")
    IN  SubSeq(kept, 1, IF Len(kept) < 15 THEN Len(kept) ELSE 15)

\* item.description || item.tokenAddress.slice(0, 8) throws for an item
\* with neither.
MapThrows(items) ==
    \E i \in DOMAIN items :
        items[i].description = Undefined /\ items[i].tokenAddress = Undefined

\* The pairs made of the items of token-boosts.
TopPairs(items) ==
    [i \in DOMAIN items |-> [address |-> items[i].tokenAddress, symbol |-> "???"]]

\* The pairs made of the items of token-profiles.
LatestPairs(items) ==
    [i \in DOMAIN items |-> [address |-> items[i].tokenAddress, symbol |-> "new"]]

\* render() throws at pair.address.slice for a pair with no address; the
\* container is set by init before anything renders.
RenderThrows(list) ==
    \E i \in DOMAIN list : list[i].address = Undefined

\* The try block of fetchFreshPairs once its request is over.
TryFreshPairs(response, held) ==
    IF response.outcome # "ok" THEN [threw |-> TRUE, pairs |-> held]
    ELSE LET items == SolanaItems(response.body)
         IN  IF MapThrows(items) THEN [threw |-> TRUE, pairs |-> held]
             ELSE [threw |-> RenderThrows(TopPairs(items)), pairs |-> TopPairs(items)]

\* fetchFallbackPairs once its request is over: it catches what it throws.
fetchFallbackPairs(response, held) ==
    IF response.outcome # "ok" THEN [recovered |-> FALSE, pairs |-> held]
    ELSE LET list == LatestPairs(SolanaItems(response.body))
         IN  [recovered |-> ~RenderThrows(list), pairs |-> list]

InFlight == {i \in DOMAIN fetches : fetches[i] \in {"primary", "fallback"}}

\* The state after new FreshPairsManager().
InitFresh ==
    /\ isLoading = FALSE
    /\ fetches = <<>>
    /\ pairs = <<>>
    /\ refreshInterval = <<>>
    /\ tokenData = None
    /\ sentiment = None
    /\ risks = None
    /\ verdict = None
    /\ pc = "freshPairs"
    /\ NoInput
    /\ NotRendered
    /\ NoDevCheck
    /\ NoDevCache
    /\ NoWallet
    /\ NoDirect
    /\ NoPrice

FreshFrame ==
    UNCHANGED <<tokenData, sentiment, risks, verdict, pc, inputVars, momentum, predictions,
                devVars, cacheVars, walletVars, directVars, priceVars>>

\* fetchFreshPairs() up to its first await.
CallFetchFreshPairs ==
    /\ Len(fetches) < MaxCalls
    /\ IF Busy(isLoading)
          THEN /\ fetches' = Append(fetches, "skipped")
               /\ UNCHANGED isLoading
          ELSE /\ fetches' = Append(fetches, "primary")
               /\ isLoading' = TRUE

Initialized == Len(refreshInterval) = Len(InitSites)

\* init(container, onPairClick): startAutoRefresh(), then fetchFreshPairs().
InitManager ==
    /\ pc = "freshPairs"
    /\ ~Initialized
    /\ refreshInterval' = Append(refreshInterval, InitSites[Len(refreshInterval) + 1])
    /\ CallFetchFreshPairs
    /\ UNCHANGED pairs
    /\ FreshFrame

\* One of the intervals started fires.
AutoRefresh ==
    /\ pc = "freshPairs"
    /\ Initialized
    /\ \E timer \in DOMAIN refreshInterval : CallFetchFreshPairs
    /\ UNCHANGED <<pairs, refreshInterval>>
    /\ FreshFrame

\* refresh()
Refresh ==
    /\ pc = "freshPairs"
    /\ Initialized
    /\ pairs' = <<>>
    /\ CallFetchFreshPairs
    /\ UNCHANGED refreshInterval
    /\ FreshFrame

\* The request to token-boosts is over: the rest of the try block, then
\* either the finally block or the request of fetchFallbackPairs.
PrimaryResponds ==
    /\ pc = "freshPairs"
    /\ \E i \in DOMAIN fetches, response \in FeedResponses :
          /\ fetches[i] = "primary"
          /\ LET tried == TryFreshPairs(response, pairs)
             IN  /\ pairs' = tried.pairs
                 /\ IF tried.threw
                       THEN /\ fetches' = [fetches EXCEPT ![i] = "fallback"]
                            /\ UNCHANGED isLoading
                       ELSE /\ fetches' = [fetches EXCEPT ![i] = "succeeded"]
                            /\ isLoading' = FALSE
    /\ UNCHANGED refreshInterval
    /\ FreshFrame

\* The request to token-profiles is over: the rest of fetchFallbackPairs,
\* then the finally block.
FallbackResponds ==
    /\ pc = "freshPairs"
    /\ \E i \in DOMAIN fetches, response \in FeedResponses :
          /\ fetches[i] = "fallback"
          /\ LET fell == fetchFallbackPairs(response, pairs)
             IN  /\ pairs' = fell.pairs
                 /\ fetches' = [fetches EXCEPT
                                  ![i] = IF fell.recovered THEN "recovered" ELSE "failed"]
          /\ isLoading' = FALSE
    /\ UNCHANGED refreshInterval
    /\ FreshFrame

NextFresh ==
    \/ InitManager
    \/ AutoRefresh
    \/ Refresh
    \/ PrimaryResponds
    \/ FallbackResponds

SpecFresh == InitFresh /\ [][NextFresh]_vars

\* Every request the browser sends is answered or fails in the end.
FairSpecFresh ==
    SpecFresh /\ WF_vars(PrimaryResponds) /\ WF_vars(FallbackResponds)

-----------------------------------------------------------------------------
(* What the properties below read off a state.                             *)

RisksComputed == pc \in {"generateVerdict", "done"}

VerdictComputed == pc = "done"

Missing(v) == v.kind \in {"undefined", "null"}

\* The integer a present field holds, 0 for a missing one.
ValueOrZero(v) == IF v.kind = "number" THEN v.n ELSE 0

\* The snapshot with every missing metric of the risk analysis set to 0.
ZeroFilled(td) ==
    [td EXCEPT !.liquidity.usd = Num(ValueOrZero(@)),
               !.volume.h24 = Num(ValueOrZero(@)),
               !.priceChange.h24 = Num(ValueOrZero(@)),
               !.txns.h24.buys = Num(ValueOrZero(@)),
               !.txns.h24.sells = Num(ValueOrZero(@))]

\* The snapshot with the same liquidity and every other field absent.
OnlyLiquidity(td) ==
    [liquidity |-> td.liquidity,
     volume |-> [h24 |-> Undefined, h6 |-> Undefined, h1 |-> Undefined],
     priceChange |-> [h24 |-> Undefined, h6 |-> Undefined, h1 |-> Undefined],
     txns |-> [h24 |-> [buys |-> Undefined, sells |-> Undefined]]]

\* The four category scores of the computed assessment, weighted 30/25/25/20.
Blend100 ==
    30 * risks.rugPull.score + 25 * risks.liquidity.score
        + 25 * risks.holderConcentration.score + 20 * risks.volatility.score

-----------------------------------------------------------------------------
\* C1: overall.score is the weighted blend 0.30 rugPull + 0.25 liquidity +
\* 0.25 holderConcentration + 0.20 volatility rounded half up (the integer s
\* with s - 0.5 <= blend < s + 0.5), and overall.level is LOW below 4, MEDIUM
\* for 4 to 6 and HIGH from 7.
C1_OverallIsRoundedBlend ==
    RisksComputed =>
        LET s == risks.overall.score
        IN  /\ 100 * s - 50 <= Blend100
            /\ Blend100 < 100 * s + 50
            /\ risks.overall.level =
                    (IF s < 4 THEN "LOW" ELSE IF s <= 6 THEN "MEDIUM" ELSE "HIGH")

\* A blend of exactly 6.50, which rounds up to 7 and so to HIGH.
C1_Witness ==
    RisksComputed /\ Blend100 = 650 /\ risks.overall = [level |-> "HIGH", score |-> 7]

\* C2: each of the five entries has a level in {LOW, MEDIUM, HIGH} and an
\* integer score between 0 and 10, whatever the snapshot holds.
C2_EntriesInRange ==
    RisksComputed =>
        \A k \in {"rugPull", "liquidity", "holderConcentration", "volatility", "overall"} :
            risks[k].level \in Levels /\ risks[k].score \in 0..10

\* An assessment of a snapshot mixing extreme and missing fields.
C2_Witness ==
    /\ RisksComputed
    /\ tokenData.liquidity.usd = Num(2000000000)
    /\ tokenData.priceChange.h24 = Num(1000000)
    /\ Missing(tokenData.txns.h24.buys)
    /\ Missing(tokenData.volume.h24)

\* C3: a liquidity below 10,000 is HIGH(9), from 10,000 up to but not
\* including 100,000 MEDIUM(6), of 100,000 or more LOW(2).
C3_LiquidityThresholds ==
    (RisksComputed /\ tokenData.liquidity.usd.kind = "number") =>
        LET l == tokenData.liquidity.usd.n
        IN  risks.liquidity =
                (IF l < 10000 THEN [level |-> "HIGH", score |-> 9]
                 ELSE IF l < 100000 THEN [level |-> "MEDIUM", score |-> 6]
                 ELSE [level |-> "LOW", score |-> 2])

\* A liquidity of exactly 10,000 assessed MEDIUM.
C3_Witness ==
    /\ RisksComputed
    /\ tokenData.liquidity.usd = Num(10000)
    /\ risks.liquidity.level = "MEDIUM"

\* C4: the rugPull level is the liquidity level, with score 8 for HIGH, 5 for
\* MEDIUM and 2 for LOW, and the rugPull entry is the same whatever any field
\* other than the liquidity holds: it is the rugPull entry of the snapshot
\* that has this liquidity and nothing else.
C4_RugPullTracksLiquidity ==
    RisksComputed =>
        /\ risks.rugPull.level = risks.liquidity.level
        /\ risks.rugPull.score =
                (CASE risks.liquidity.level = "HIGH" -> 8
                   [] risks.liquidity.level = "MEDIUM" -> 5
                   [] OTHER -> 2)
        /\ risks.rugPull = calculateRiskAnalysis(OnlyLiquidity(tokenData)).rugPull

\* A MEDIUM liquidity risk with its MEDIUM(5) rugPull entry.
C4_Witness ==
    /\ RisksComputed
    /\ risks.liquidity.level = "MEDIUM"
    /\ risks.rugPull = [level |-> "MEDIUM", score |-> 5]

\* C5: a 24h total buys + sells below 50 is HIGH(8), from 50 to 199
\* MEDIUM(5), of 200 or more LOW(3).
C5_HolderThresholds ==
    (/\ RisksComputed
     /\ tokenData.txns.h24.buys.kind = "number"
     /\ tokenData.txns.h24.sells.kind = "number") =>
        LET total == tokenData.txns.h24.buys.n + tokenData.txns.h24.sells.n
        IN  risks.holderConcentration =
                (IF total < 50 THEN [level |-> "HIGH", score |-> 8]
                 ELSE IF total <= 199 THEN [level |-> "MEDIUM", score |-> 5]
                 ELSE [level |-> "LOW", score |-> 3])

\* A total of exactly 50, made of sells alone, assessed MEDIUM.
C5_Witness ==
    /\ RisksComputed
    /\ tokenData.txns.h24.buys = Num(0)
    /\ tokenData.txns.h24.sells = Num(50)
    /\ risks.holderConcentration.level = "MEDIUM"

\* C6: liquidity 5,000, volume24h 2,000, priceChange24h +80, buys 10 and
\* sells 40 give liquidity HIGH(9), rugPull HIGH(8), volatility HIGH(9),
\* holderConcentration MEDIUM(5) and overall HIGH with score 8.
C6_Example ==
    (/\ RisksComputed
     /\ tokenData.liquidity.usd = Num(5000)
     /\ tokenData.volume.h24 = Num(2000)
     /\ tokenData.priceChange.h24 = Num(80)
     /\ tokenData.txns.h24.buys = Num(10)
     /\ tokenData.txns.h24.sells = Num(40)) =>
        risks = [liquidity |-> [level |-> "HIGH", score |-> 9],
                 rugPull |-> [level |-> "HIGH", score |-> 8],
                 volatility |-> [level |-> "HIGH", score |-> 9],
                 holderConcentration |-> [level |-> "MEDIUM", score |-> 5],
                 overall |-> [level |-> "HIGH", score |-> 8]]

\* The example snapshot, assessed.
C6_Witness ==
    /\ RisksComputed
    /\ tokenData.liquidity.usd = Num(5000)
    /\ tokenData.volume.h24 = Num(2000)
    /\ tokenData.priceChange.h24 = Num(80)
    /\ tokenData.txns.h24.buys = Num(10)
    /\ tokenData.txns.h24.sells = Num(40)
    /\ risks.overall.score = 8

\* C7: a missing or null metric gives the result of that metric being 0:
\* missing liquidity gives liquidity HIGH(9) and rugPull HIGH(8), missing
\* transaction counts holderConcentration HIGH(8), a missing 24h price change
\* volatility LOW(3), and all of them missing overall HIGH with score 7.
C7_MissingIsZero ==
    RisksComputed =>
        /\ risks = calculateRiskAnalysis(ZeroFilled(tokenData))
        /\ Missing(tokenData.liquidity.usd) =>
                /\ risks.liquidity = [level |-> "HIGH", score |-> 9]
                /\ risks.rugPull = [level |-> "HIGH", score |-> 8]
        /\ (Missing(tokenData.txns.h24.buys) /\ Missing(tokenData.txns.h24.sells)) =>
                risks.holderConcentration = [level |-> "HIGH", score |-> 8]
        /\ Missing(tokenData.priceChange.h24) =>
                risks.volatility = [level |-> "LOW", score |-> 3]
        /\ (/\ Missing(tokenData.liquidity.usd)
            /\ Missing(tokenData.txns.h24.buys)
            /\ Missing(tokenData.txns.h24.sells)
            /\ Missing(tokenData.priceChange.h24)) =>
                risks.overall = [level |-> "HIGH", score |-> 7]

\* A snapshot with no liquidity, no price change and no transaction counts,
\* assessed.
C7_Witness ==
    /\ RisksComputed
    /\ tokenData.liquidity.usd = Undefined
    /\ tokenData.priceChange.h24 = Undefined
    /\ tokenData.txns.h24.buys = Undefined
    /\ tokenData.txns.h24.sells = Null
    /\ risks.overall.score = 7

\* C9 (as claimed): the strength is Strong exactly when the overall risk
\* score is at most 4 and the liquidity at least 100,000, otherwise Weak
\* exactly when the score is at least 7 or the liquidity below 10,000,
\* otherwise Moderate.
C9_StrengthAsClaimed ==
    VerdictComputed =>
        LET s == risks.overall.score
            l == ValueOrZero(tokenData.liquidity.usd)
        IN  verdict.strength =
                (IF s <= 4 /\ l >= 100000 THEN "Strong"
                 ELSE IF s >= 7 \/ l < 10000 THEN "Weak"
                 ELSE "Moderate")

\* C10 (as claimed): some overall risk score and liquidity satisfy the Strong
\* and the Weak condition together, and the verdict on them is Strong.
C10_ConditionsOverlapAsClaimed ==
    VerdictComputed =>
        \E s \in 0..10, liq \in LiquidityValues :
            LET l == ValueOrZero(liq)
            IN  /\ s <= 4 /\ l >= 100000
                /\ s >= 7 \/ l < 10000
                /\ ProjectStrength(s, OrZero(liq)) = "Strong"

\* C10 (amended): no overall risk score and liquidity satisfy the Strong and
\* the Weak condition together; whenever the Weak condition holds the verdict
\* is Weak, and a Strong verdict is given only under the Strong condition:
\* for the liquidity of the snapshot with every score from 0 to 10, and for
\* the verdict displayed.
C10_ConditionsExclusive ==
    VerdictComputed =>
        /\ \A s \in 0..10 :
                LET l == ValueOrZero(tokenData.liquidity.usd)
                    strong == s <= 4 /\ l >= 100000
                    weak == s >= 7 \/ l < 10000
                    strength == ProjectStrength(s, OrZero(tokenData.liquidity.usd))
                IN  /\ ~(strong /\ weak)
                    /\ weak => strength = "Weak"
                    /\ strength = "Strong" => strong
        /\ LET s == risks.overall.score
                l == ValueOrZero(tokenData.liquidity.usd)
            IN  /\ (s >= 7 \/ l < 10000) => verdict.strength = "Weak"
                /\ verdict.strength = "Strong" => (s <= 4 /\ l >= 100000)

\* A Strong verdict: the first condition matched.
C10_Witness ==
    VerdictComputed /\ verdict.strength = "Strong" /\ risks.overall.score <= 4

-----------------------------------------------------------------------------
SentimentComputed == pc # "analyzeSentiment"

\* C13 (as claimed): with a 1h volume that is present, the trend follows
\* ratio = 24 * h1 / h24 (above 1.5 Increasing, below 0.5 Decreasing, else
\* Stable); with an absent one the ratio is that of h24 / 24, so Stable; and
\* with h24 zero and the 1h volume zero or absent the trend is Stable.
C13_VolumeTrendAsClaimed ==
    SentimentComputed =>
        LET h24 == ValueOrZero(tokenData.volume.h24)
            h1 == ValueOrZero(tokenData.volume.h1)
        IN  /\ Missing(tokenData.volume.h1) => sentiment.volumeTrend = "Stable"
            /\ (h24 = 0 /\ h1 = 0) => sentiment.volumeTrend = "Stable"
            /\ (~Missing(tokenData.volume.h1) /\ h24 > 0) =>
                    sentiment.volumeTrend =
                        (IF 2 * 24 * h1 > 3 * h24 THEN "Increasing"
                         ELSE IF 2 * 24 * h1 < h24 THEN "Decreasing"
                         ELSE "Stable")

\* C14: the buy/sell ratio is buys/sells when sells > 0 and buys when sells
\* is 0 (returned to two decimals); above 2 it gives Accumulation, below 0.5
\* Distribution, otherwise Neutral, for all non-negative counts.
C14_WhaleActivity ==
    (/\ SentimentComputed
     /\ tokenData.txns.h24.buys.kind = "number"
     /\ tokenData.txns.h24.sells.kind = "number") =>
        LET b == tokenData.txns.h24.buys.n
            x == tokenData.txns.h24.sells.n
            k == sentiment.buySellRatio.n
        IN  /\ sentiment.whaleActivity =
                    (IF x > 0
                        THEN (IF b > 2 * x THEN "Accumulation"
                              ELSE IF 2 * b < x THEN "Distribution"
                              ELSE "Neutral")
                        ELSE (IF b > 2 THEN "Accumulation"
                              ELSE IF b = 0 THEN "Distribution"
                              ELSE "Neutral"))
            /\ sentiment.buySellRatio.kind = "number"
            /\ sentiment.buySellRatio.d = 100
            /\ x > 0 => (2 * (100 * b - k * x) <= x /\ 2 * (k * x - 100 * b) <= x)
            /\ x = 0 => k = 100 * b

\* One buy and no sell: the ratio is the buy count, 1.00, and so Neutral.
C14_Witness ==
    /\ SentimentComputed
    /\ tokenData.txns.h24.buys = Num(1)
    /\ tokenData.txns.h24.sells = Num(0)
    /\ sentiment.whaleActivity = "Neutral"
    /\ sentiment.buySellRatio = Frac(100, 100)

\* C15: Bullish exactly when the 24h change is above 10 and the 6h change
\* above 0, Bearish exactly when the 24h change is below -10 and the 6h
\* change below 0, Neutral in every other case (a missing change counts 0).
C15_TrendDirection ==
    SentimentComputed =>
        LET p24 == ValueOrZero(tokenData.priceChange.h24)
            p6 == ValueOrZero(tokenData.priceChange.h6)
        IN  /\ sentiment.trendDirection = "Bullish" <=> (p24 > 10 /\ p6 > 0)
            /\ sentiment.trendDirection = "Bearish" <=> (p24 < -10 /\ p6 < 0)
            /\ sentiment.trendDirection \in {"Bullish", "Bearish", "Neutral"}

\* A 24h change above 10 with a falling 6h change: Neutral.
C15_Witness ==
    /\ SentimentComputed
    /\ tokenData.priceChange.h24 = Num(11)
    /\ tokenData.priceChange.h6 = Num(-1)
    /\ sentiment.trendDirection = "Neutral"

-----------------------------------------------------------------------------
Validated == pc = "validateInput" /\ validation # None

AllWhitespace(s) == \A i \in 1..Len(s) : s[i] \in Whitespace

\* s spells the deny-list entry t, letter for letter, in any case.
SpellingOf(s, t) ==
    /\ Len(s) = Len(t)
    /\ \A i \in 1..Len(t) :
        \/ s[i] = t[i]
        \/ \E k \in 1..26 : {s[i], t[i]} = {LowerCaseLetters[k], UpperCaseLetters[k]}

\* s is a spelling of t between two runs of whitespace.
PaddedSpellingOf(s, t) ==
    \E l \in 0..Len(s) :
        /\ l + Len(t) <= Len(s)
        /\ AllWhitespace(SubSeq(s, 1, l))
        /\ SpellingOf(SubSeq(s, l + 1, l + Len(t)), t)
        /\ AllWhitespace(SubSeq(s, l + Len(t) + 1, Len(s)))

\* C11: validateInput returns exactly one outcome, the first that applies
\* of: empty or whitespace-only, the empty-input message; a comma or a space
\* in the trimmed text, the one-token message; an address shape, valid as
\* 'address'; a deny-listed ticker, the blocked-token message; otherwise
\* valid as 'ticker'.  A valid result has no error and a type, an invalid
\* one has one of the three messages and no type.
C11_ValidateInputOrder ==
    Validated =>
        /\ validation =
            (IF AllWhitespace(input) THEN Invalid(EmptyInputError)
             ELSE IF Includes(Trim(input), ",") \/ Includes(Trim(input), " ")
                 THEN Invalid(OneTokenError)
             ELSE IF isContractAddress(Trim(input)) THEN Valid("address")
             ELSE IF isBlockedToken(Trim(input)) THEN Invalid(BlockedTokenError)
             ELSE Valid("ticker"))
        /\ validation.valid =>
            /\ validation.error = Null
            /\ validation.type \in {Str("address"), Str("ticker")}
        /\ ~validation.valid =>
            /\ validation.error \in {EmptyInputError, OneTokenError, BlockedTokenError}
            /\ validation.type = Null

\* A deny-list entry that holds a space is turned away by the one-token
\* check, which comes first.
C11_Witness ==
    /\ Validated
    /\ input = <<"U", "S", "D", " ", "C", "O", "I", "N">>
    /\ validation = Invalid(OneTokenError)

\* C12 (as claimed): every deny-list entry, in any letter case and between
\* any whitespace, is invalid with the blocked-token message for
\* validateInput and true for isBlockedToken.
C12_DenyListAsClaimed ==
    (pc = "validateInput" /\ \E t \in BLOCKED_TOKENS : PaddedSpellingOf(input, t)) =>
        /\ validation # None => validation = Invalid(BlockedTokenError)
        /\ blocked # None => blocked = Bool(TRUE)

-----------------------------------------------------------------------------
MomentumRendered == momentum # None

\* C16: the momentum score is an integer within [0, 100]; it is the sum,
\* clamped to [0, 100] and rounded, of a volume sub-score of at most 30, a
\* transaction sub-score of at most 25, a buy-pressure sub-score of at most
\* 25 (15 when there is no sell), a price sub-score within [-10, 20] and 25.
C16_MomentumScore ==
    MomentumRendered =>
        LET s == MomentumSubScores(tokenData)
            sum == Sum(Sum(Sum(Sum(s.volumeScore, s.txScore), s.buyPressureScore),
                           s.momentumScore), Num(25))
            clamped == IF Lt(sum, Num(0)) THEN Num(0)
                       ELSE IF Gt(sum, Num(100)) THEN Num(100)
                       ELSE sum
            score == momentum.momentumScore
        IN  /\ score.kind = "number"
            /\ score.d = 1
            /\ score.n \in 0..100
            /\ Le(Num(0), s.volumeScore) /\ Le(s.volumeScore, Num(30))
            /\ Le(Num(0), s.txScore) /\ Le(s.txScore, Num(25))
            /\ Le(Num(0), s.buyPressureScore) /\ Le(s.buyPressureScore, Num(25))
            /\ ValueOrZero(tokenData.txns.h24.sells) = 0 => s.buyPressureScore = Num(15)
            /\ Le(Num(-10), s.momentumScore) /\ Le(s.momentumScore, Num(20))
            /\ clamped.kind = "number"
            /\ 2 * (score.n * clamped.d - clamped.n) <= clamped.d
            /\ 2 * (clamped.n - score.n * clamped.d) <= clamped.d

\* Every sub-score at its cap: 30 + 25 + 25 + 20 + 25 = 125, shown as 100.
C16_Witness ==
    /\ MomentumRendered
    /\ tokenData.volume.h24 = Num(10000000)
    /\ tokenData.txns.h24.buys = Num(2000)
    /\ tokenData.txns.h24.sells = Num(100)
    /\ tokenData.priceChange.h24 = Num(1000000)
    /\ momentum.momentumScore = Num(100)

\* The card writes its label in capitals.
ToUpperCaseText(label) ==
    CASE label = "Strong" -> "STRONG"
      [] label = "Moderate" -> "MODERATE"
      [] label = "Weak" -> "WEAK"
      [] label = "Very Weak" -> "VERY WEAK"

\* The table of labels: 70 or more Strong, 50 to 69 Moderate, 30 to 49 Weak,
\* below 30 Very Weak.
LabelOfScore(score) ==
    IF score >= 70 THEN "Strong"
    ELSE IF score >= 50 THEN "Moderate"
    ELSE IF score >= 30 THEN "Weak"
    ELSE "Very Weak"

\* C17 (as claimed): the label of the card is the table's label of the
\* score, and so is the momentum strength shown for the same snapshot.
C17_LabelsAsClaimed ==
    MomentumRendered =>
        LET label == LabelOfScore(momentum.momentumScore.n)
        IN  /\ momentum.momentumLabel = ToUpperCaseText(label)
            /\ momentum.momentumStrength = label

-----------------------------------------------------------------------------
PredictionsGenerated == predictions # None

\* The price and the market cap the scenarios start from.
CurrentPrice == Or(ParseFloat(tokenData.priceUsd), Num(0))

MarketCap ==
    IF ValueOrZero(tokenData.marketCap) # 0 THEN tokenData.marketCap
    ELSE IF ValueOrZero(tokenData.fdv) # 0 THEN tokenData.fdv
    ELSE Num(0)

\* C18: with m = 2 + min(10 * volume24h / marketCap, 3), a number of
\* [2, 5], the bullish price range is price * m / 2 to price * m and the
\* bullish market-cap range marketCap * m / 2 to marketCap * m, low never
\* above high; without a market cap the multiplier still lies in [2, 5].
C18_BullishRange ==
    PredictionsGenerated =>
        LET volume24h == ValueOrZero(tokenData.volume.h24)
            b == predictions.bullish
            m == IF 10 * volume24h >= 3 * MarketCap.n THEN Num(5)
                 ELSE Reduce(Frac(2 * MarketCap.n + 10 * volume24h, MarketCap.n))
        IN  /\ MarketCap.n > 0 =>
                /\ Le(Num(2), m) /\ Le(m, Num(5))
                /\ b.priceRange.high = Times(CurrentPrice, m)
                /\ b.marketCapRange.high = Times(MarketCap, m)
            /\ Le(Times(CurrentPrice, Num(2)), b.priceRange.high)
            /\ Le(b.priceRange.high, Times(CurrentPrice, Num(5)))
            /\ Le(Times(MarketCap, Num(2)), b.marketCapRange.high)
            /\ Le(b.marketCapRange.high, Times(MarketCap, Num(5)))
            /\ b.priceRange.low = Times(b.priceRange.high, Frac(1, 2))
            /\ b.marketCapRange.low = Times(b.marketCapRange.high, Frac(1, 2))
            /\ Le(b.priceRange.low, b.priceRange.high)
            /\ Le(b.marketCapRange.low, b.marketCapRange.high)

\* A volume a hundred times the market cap: the multiplier is capped at 5.
C18_Witness ==
    /\ PredictionsGenerated
    /\ tokenData.priceUsd = Str(<<"2", ".", "5">>)
    /\ tokenData.marketCap = Num(1000)
    /\ tokenData.volume.h24 = Num(100000)
    /\ predictions.bullish.priceRange = [low |-> Frac(25, 4), high |-> Frac(25, 2)]
    /\ predictions.bullish.marketCapRange = [low |-> Num(2500), high |-> Num(5000)]

\* C19: the neutral range is 0.5x to 1.5x and the bearish range 0.05x to
\* 0.3x of the price and of the market cap, and the scenarios returned are
\* those of every other value Math.random() could have given.
C19_FixedBands ==
    PredictionsGenerated =>
        /\ predictions.neutral.priceRange =
                [low |-> Times(CurrentPrice, Frac(1, 2)), high |-> Times(CurrentPrice, Frac(3, 2))]
        /\ predictions.neutral.marketCapRange =
                [low |-> Times(MarketCap, Frac(1, 2)), high |-> Times(MarketCap, Frac(3, 2))]
        /\ predictions.bearish.priceRange =
                [low |-> Times(CurrentPrice, Frac(1, 20)), high |-> Times(CurrentPrice, Frac(3, 10))]
        /\ predictions.bearish.marketCapRange =
                [low |-> Times(MarketCap, Frac(1, 20)), high |-> Times(MarketCap, Frac(3, 10))]
        /\ \A random \in RandomValues :
                generatePredictions(tokenData, random) = predictions

\* A price of 2.5 and a market cap of 1000.
C19_Witness ==
    /\ PredictionsGenerated
    /\ tokenData.priceUsd = Str(<<"2", ".", "5">>)
    /\ tokenData.marketCap = Num(1000)
    /\ predictions.neutral.priceRange = [low |-> Frac(5, 4), high |-> Frac(15, 4)]
    /\ predictions.neutral.marketCapRange = [low |-> Num(500), high |-> Num(1500)]
    /\ predictions.bearish.priceRange = [low |-> Frac(1, 8), high |-> Frac(3, 4)]
    /\ predictions.bearish.marketCapRange = [low |-> Num(50), high |-> Num(300)]

-----------------------------------------------------------------------------
\* A dev check has ended with a scored result, not with a default one.
DevScored ==
    /\ devAnalysis # None
    /\ "status" \in DOMAIN devAnalysis
    /\ devAnalysis.status \in {"analyzed", "partial"}

\* The grade of a trust score: 70 or more, 40 to 69, below 40.
GradeOfScore(score) ==
    IF score >= 70 THEN [riskLevel |-> "LOW", badges |-> {"TRUSTED DEV"}, class |-> "positive"]
    ELSE IF score >= 40
        THEN [riskLevel |-> "MEDIUM", badges |-> {"AVERAGE", "CAUTION"}, class |-> "warning"]
    ELSE [riskLevel |-> "DANGER", badges |-> {"HIGH RISK"}, class |-> "negative"]

\* C20 (as claimed): every scored result has a trust score within [0, 100],
\* the risk grade of that score (70 or more trusted, 40 to 69 middle, below
\* 40 high risk), and the badge text and colour class of that grade.
C20_GradeAsClaimed ==
    DevScored =>
        LET grade == GradeOfScore(devAnalysis.message)
        IN  /\ devAnalysis.message \in 0..100
            /\ "riskLevel" \in DOMAIN devAnalysis => devAnalysis.riskLevel = grade.riskLevel
            /\ devAnalysis.badge \in grade.badges
            /\ devAnalysis.badgeClass = grade.class

\* The token of the example has been scored.
ExampleScored ==
    /\ DevScored
    /\ devFacts.chain = ExampleChain
    /\ devFacts.pairData = ExamplePair
    /\ devFacts.devStats = NoDevStats

\* C21 (as claimed): for the token of the example the score is the
\* baseline (100 where penalties are taken off, 40 where adjustments are
\* added) less 50 for the mint authority, less 30 for the holders, plus 20
\* for the liquidity, clamped; the mint-authority and holder-concentration
\* flags are raised; from baseline 40 the score is 0 and the grade DANGER.
C21_ExampleAsClaimed ==
    ExampleScored =>
        LET penalties == "riskLevel" \in DOMAIN devAnalysis
            baseline == IF penalties THEN 100 ELSE 40
        IN  /\ devAnalysis.message = Clamp(0, baseline - 50 - 30 + 20, 100)
            /\ penalties =>
                /\ Includes(devAnalysis.riskFlags, "Mint Authority Enabled")
                /\ Includes(devAnalysis.riskFlags, "High Concentration")
            /\ ~penalties =>
                /\ devAnalysis.message = 0
                /\ devAnalysis.badge = "HIGH RISK"


-----------------------------------------------------------------------------
\* The dev check has returned or thrown.
LookupsDone == pc = "done" /\ devAnalysis # None

\* C22 (as claimed): analyzeDevWallet returns a result whatever the
\* token-metadata lookup, the dev-history endpoint and the Pump.fun
\* fallback do: a source that failed adds nothing to the score, a failed
\* token-metadata lookup gives the score of the pair data alone when there
\* is pair data and the "verify manually" default when there is none.
C22_DegradesAsClaimed ==
    LookupsDone =>
        LET failed == devFacts.meta.outcome # "ok"
            noHistory == devFacts.history.outcome # "ok" /\ devFacts.fallback.outcome # "ok"
            pairAlone == calculateTrustScore(devFacts.pairData, NoDevStats)
        IN  /\ ~devAnalysis.threw
            /\ ~failed /\ noHistory => devAnalysis.value.message = pairAlone.message
            /\ failed /\ devFacts.pairData.present =>
                    /\ devAnalysis.value.message = pairAlone.message
                    /\ devAnalysis.value.badge = pairAlone.badge
            /\ failed /\ ~devFacts.pairData.present =>
                    /\ devAnalysis.value.badge = "VERIFY"
                    /\ devAnalysis.value.message = "API Error"

C28_CacheOnlyOnSuccessAsClaimed ==
    [][(call' # call /\ call'.phase = "done") =>
            /\ call'.chainId # "solana" => cache' = cache
            /\ call'.meta \in {"throws", "notOk"} => cache' = cache
            /\ (call.phase = "fetch" /\ cache' # cache) => call'.meta = "ok"]_vars

\* A finite number: neither NaN nor an Infinity, and not a missing value.
Finite(v) == v.kind = "number"

\* The fields of the snapshot that are missing or null.
MissingFields ==
    {name \in NumericFields :
        LET v == CASE name = "priceUsd" -> tokenData.priceUsd
                   [] name = "marketCap" -> tokenData.marketCap
                   [] name = "fdv" -> tokenData.fdv
                   [] name = "liquidity.usd" -> tokenData.liquidity.usd
                   [] name = "volume.h1" -> tokenData.volume.h1
                   [] name = "volume.h6" -> tokenData.volume.h6
                   [] name = "volume.h24" -> tokenData.volume.h24
                   [] name = "priceChange.h1" -> tokenData.priceChange.h1
                   [] name = "priceChange.h6" -> tokenData.priceChange.h6
                   [] name = "priceChange.h24" -> tokenData.priceChange.h24
                   [] name = "txns.h24.buys" -> tokenData.txns.h24.buys
                   [] OTHER -> tokenData.txns.h24.sells
        IN  v.kind \in {"undefined", "null"}}

\* C24: whichever numeric fields of the snapshot are missing or null, the
\* scores of calculateRiskAnalysis, the buySellRatio and transactionCount
\* of analyzeSentiment, every bound of generatePredictions and the
\* momentum score are finite numbers.
C24_FiniteWithMissingFields ==
    /\ sentiment # None =>
            Finite(sentiment.buySellRatio) /\ Finite(sentiment.transactionCount)
    /\ risks # None => \A k \in DOMAIN risks : risks[k].score \in 0..10
    /\ momentum # None => Finite(momentum.momentumScore) /\ Finite(momentum.volumeSurge)
    /\ predictions # None =>
            \A scenario \in DOMAIN predictions :
                \A range \in DOMAIN predictions[scenario] :
                    /\ Finite(predictions[scenario][range].low)
                    /\ Finite(predictions[scenario][range].high)

\* All four results have been computed from a snapshot none of whose
\* numeric fields is there.
C24_Witness ==
    /\ tokenData # None
    /\ "fdv" \in DOMAIN tokenData
    /\ "txns" \in DOMAIN tokenData
    /\ MissingFields = NumericFields
    /\ sentiment # None
    /\ risks # None
    /\ momentum # None
    /\ predictions # None

\* The handler has called getFullWalletAnalysis and answered.
WalletAnswered ==
    /\ walletResponse # None
    /\ ~(walletResponse.status = 500 /\ walletResponse.error = "API configuration error")

\* C25: getFullWalletAnalysis gives a result whichever of its four
\* lookups fail: a failed lookup is null in it, a lookup that succeeded is
\* there with its value, the risk indicators are those of the lookups that
\* succeeded, and the trust score lies between 0 and 100.
C25_FullAnalysisSettles ==
    WalletAnswered =>
        LET data == walletResponse.data
            ok(k) == walletFacts[k].status = "fulfilled"
            age == IF ok("transactions") THEN walletFacts.transactions.value.walletAge ELSE Null
            txCount == IF ok("transactions") THEN walletFacts.transactions.value.totalCount ELSE 0
            tokenCount == IF ok("tokens") THEN walletFacts.tokens.value.count ELSE 0
            ageTerm ==
                IF age = Null \/ age.days.kind = "NaN" THEN 0
                ELSE IF age.days.n < 1 THEN -30
                ELSE IF age.days.n < 7 THEN -15
                ELSE IF age.days.n > 365 THEN 20
                ELSE 0
            activityTerm == IF txCount > 100 THEN 10 ELSE IF txCount < 10 THEN -10 ELSE 0
            diversityTerm == IF tokenCount > 20 THEN 5 ELSE IF tokenCount = 1 THEN -10 ELSE 0
        IN  /\ walletResponse.status = 200
            /\ \A k \in DOMAIN walletFacts :
                    data[k] = IF ok(k) THEN walletFacts[k].value ELSE Null
            /\ data.riskIndicators.trustScore \in 0..100
            /\ data.riskIndicators.trustScore = 50 + ageTerm + activityTerm + diversityTerm
            /\ data.riskIndicators.isWhale =
                    (ok("portfolio") /\ walletFacts.portfolio.value.totalNetWorthUSD >= 100000)

\* The analysis of a wallet whose portfolio and transactions could not
\* be fetched and whose only token makes the score 30.
C25_Witness ==
    /\ WalletAnswered
    /\ walletResponse.status = 200
    /\ walletResponse.data.portfolio = Null
    /\ walletResponse.data.transactions = Null
    /\ walletResponse.data.tokens # Null
    /\ walletResponse.data.balance # Null
    /\ walletResponse.data.riskIndicators.trustScore = 30

\* The summary has been made.
Summarised == walletSummary # None

\* C27 (as claimed): when the analysis succeeded the summary's trustScore
\* is the trust score calculateWalletRisk computed, whatever it is from 0
\* to 100, and the summary has no error field; when the request failed
\* the summary has trustScore 0 and an error field.
C27_SummaryScoreAsClaimed ==
    Summarised =>
        LET succeeded == walletResponse # None /\ walletResponse.status = 200
        IN  /\ succeeded =>
                /\ walletSummary.trustScore = walletResponse.data.riskIndicators.trustScore
                /\ "error" \notin DOMAIN walletSummary
            /\ ~succeeded =>
                /\ walletSummary.trustScore = 0
                /\ "error" \in DOMAIN walletSummary

\* The source answers with data getTokenDirect accepts.
HasData(source) ==
    LET r == sources[source]
    IN  /\ r.outcome = "ok"
        /\ CASE source \in {"tokens", "tokenPairs"} ->
                    r.body.isArray /\ Len(r.body.items) > 0
              [] source = "search" -> r.body.hasPairs /\ Len(r.body.pairs) > 0
              [] OTHER -> r.body.mint

\* C26: getTokenDirect contacts the tokens, the token-pairs, the search
\* and the Pump.fun endpoint in this order, a later one only when none of
\* the earlier ones had data; it returns the data of the first that has
\* data, an empty list of pairs when none has, and it never throws.
C26_DirectLookupOrder ==
    (pc \in {"tokens", "tokenPairs", "search", "pumpfun", "done"} /\ sources # None) =>
        /\ contacted = SubSeq(DirectOrder, 1, Len(contacted))
        /\ \A i \in 1..Len(contacted) : \A j \in 1..(i - 1) : ~HasData(contacted[j])
        /\ direct # None =>
                /\ ~direct.threw
                /\ IF \E i \in 1..4 : HasData(DirectOrder[i])
                        THEN LET first ==
                                    CHOOSE i \in 1..4 :
                                        /\ HasData(DirectOrder[i])
                                        /\ \A j \in 1..(i - 1) : ~HasData(DirectOrder[j])
                             IN  /\ Len(contacted) = first
                                 /\ Len(direct.value.pairs) = 1
                                 /\ direct.value.pairs[1].pairAddress = DirectOrder[first]
                        ELSE Len(contacted) = 4 /\ direct.value.pairs = <<>>

\* The Pump.fun endpoint gave the result after the tokens endpoint threw,
\* the token-pairs endpoint answered with a status that is not OK and the
\* search found nothing.
C26_Witness ==
    /\ sources # None
    /\ direct # None
    /\ sources.tokens.outcome = "throws"
    /\ sources.tokenPairs.outcome = "notOk"
    /\ sources.search.outcome = "ok"
    /\ contacted = DirectOrder
    /\ ~direct.threw
    /\ Len(direct.value.pairs) = 1
    /\ direct.value.pairs[1].priceUsd = Str(<<"0", ".", "0", "0", "5">>)

\* The text s holds the text t somewhere.
Contains(s, t) ==
    \E i \in 1..(Len(s) - Len(t) + 1) : SubSeq(s, i, i + Len(t) - 1) = t

\* C29 (as claimed): formatPrice gives "N/A" for a price that is null or
\* undefined, and for every finite price from 0 on, 0 included, a text
\* that starts with "$" and holds neither "NaN" nor "Infinity".
C29_FormatPriceAsClaimed ==
    formatted # None =>
        /\ price.kind \in {"null", "undefined"} =>
                formatted.text = <<"N", "/", "A">>
        /\ (price.kind = "number" /\ price.n >= 0) =>
                /\ formatted.text[1] = "$"
                /\ ~Contains(formatted.text, <<"N", "a", "N">>)
                /\ ~Contains(formatted.text, <<"I", "n", "f", "i", "n", "i", "t", "y">>)

\* C30: of one FreshPairsManager at most one fetchFreshPairs is in flight at
\* a time, isLoading is true exactly while one is, a call made while
\* isLoading is true returns without fetching, and isLoading always comes
\* back to false, so that refreshing is never blocked for good.
C30_SingleFlight ==
    /\ [](Cardinality(InFlight) <= 1 /\ (isLoading <=> InFlight # {}))
    /\ [][(isLoading /\ Len(fetches') > Len(fetches)) =>
            (fetches' = Append(fetches, "skipped") /\ isLoading')]_vars
    /\ (isLoading ~> ~isLoading)

\* A call was skipped, fetches ended in each of the three ways, and
\* isLoading is false again.
C30_Witness ==
    /\ ~isLoading
    /\ \A way \in {"skipped", "succeeded", "recovered", "failed"} :
          \E i \in DOMAIN fetches : fetches[i] = way

=============================================================================
